---- MODULE Spec2Model ----
(***************************************************************************)
(* Model of the plan -> execute -> reflect -> (refine -> execute ->        *)
(* reflect)* -> respond workflow of src/workflow/main_workflow.py, with    *)
(* the adapters it drives (planner, tool agent, reflector).                *)
(*                                                                         *)
(* The graph is a LangGraph StateGraph.  Two properties of that runtime    *)
(* shape the model:                                                        *)
(*  - the workflow state lives in the graph's channels; a node's returned  *)
(*    dict is written back to them, while the routing function given to    *)
(*    add_conditional_edges receives a snapshot of the state and returns   *)
(*    only the name of the next node, so an assignment it makes to the     *)
(*    snapshot is not written back;                                        *)
(*  - a run is cut off with GraphRecursionError once RecursionLimit nodes  *)
(*    have run and another one is due; whether a run whose last node was   *)
(*    the RecursionLimit-th one still returns its state differs between    *)
(*    releases of the runtime, so both outcomes are possible here; an      *)
(*    exception raised by a node leaves invoke() the same way.  All end    *)
(*    in run_workflow's handlers.                                          *)
(* The graph and its agents are built before run_workflow enters its try   *)
(* block: an exception of that part leaves run_workflow.                   *)
(*                                                                         *)
(* Specifications: Spec (a whole run), SpecRefine (refine_step alone),     *)
(* SpecDecide (the decision alone), SpecTool (execute_task alone),         *)
(* SpecIntake (a plan or a refinement with its descriptions character by   *)
(* character, then the round's execution), SpecConcurrent (two calls of    *)
(* run_workflow side by side: there the state fields are functions of the  *)
(* state dict and pc, steps and ret functions of the call), SpecQueue      *)
(* (TaskQueue: there tasks is self.tasks and hist holds the dicts and the  *)
(* two record dicts), SpecQueueFresh (TaskQueue under callers that add no  *)
(* id twice), SpecRespond (generate_response_step alone) and SpecRegistry  *)
(* (the registry of asynchronous runs of api/main.py, kept in hist).       *)
(***************************************************************************)
EXTENDS Integers, Sequences, FiniteSets, TLC

VARIABLES
    tasks,            \* WorkflowState.tasks
    results,          \* WorkflowState.results
    reflection,       \* WorkflowState.reflection
    final_response,   \* WorkflowState.final_response
    iteration,        \* WorkflowState.iteration
    max_iterations,   \* WorkflowState.max_iterations
    error_message,    \* WorkflowState.error_message
    pc,               \* the node that runs next, or where run_workflow stands
    steps,            \* nodes run so far in this invoke()
    ret,              \* what run_workflow returned
    hist              \* history of the run: what happened, for the properties

vars == <<tasks, results, reflection, final_response, iteration,
          max_iterations, error_message, pc, steps, ret, hist>>

-----------------------------------------------------------------------------
(* Bounds of the model. *)

MaxMaxIterations == 2      \* max_iterations ranges over 1..MaxMaxIterations
MaxPlan == 2               \* tasks in a plan
MaxTasks == 2              \* tasks in the list after a refinement
MaxWfRefs == 1             \* refinement instructions of a verdict in a run
MaxRefs == 2               \* refinement instructions given to the engine alone
MaxEngineTasks == 2        \* tasks given to the engine alone
MaxId == 3                 \* largest integer id in a task list

(* Nodes one invoke() may run.  workflow.config (line 265) is an attribute *)
(* of the builder, which compile() and invoke() do not read: the limit in  *)
(* force is the runtime's default.                                         *)
RecursionLimit == 25

-----------------------------------------------------------------------------
(* Python values: None, int, str.  Equality of two values is Python's ==.  *)

PyNone == [ty |-> "none", n |-> 0, s |-> ""]
PyInt(i) == [ty |-> "int", n |-> i, s |-> ""]
PyStr(x) == [ty |-> "str", n |-> 0, s |-> x]

(* The characters of a str (for c in x), and "".join of characters. *)
Chars(x) == [i \in 1..Len(x) |-> SubSeq(x, i, i)]

RECURSIVE Join(_)
Join(cs) == IF cs = <<>> THEN "" ELSE Head(cs) \o Join(Tail(cs))

(* dict: a function from keys to values. *)
EmptyDict == [k \in {} |-> PyNone]
Has(d, k) == k \in DOMAIN d
Get(d, k) == IF k \in DOMAIN d THEN d[k] ELSE PyNone
Update(d, e) == [k \in (DOMAIN d) \cup (DOMAIN e) |->
                    IF k \in DOMAIN e THEN e[k] ELSE d[k]]

Task(id, description, tool) ==
    [k \in {"id", "description", "tool"} |->
        CASE k = "id" -> id
          [] k = "description" -> description
          [] OTHER -> tool]

RequiredKeys == {"id", "description", "tool"}

(* json_content_for_error[:200] *)
First200(x) == IF Len(x) > 200 THEN SubSeq(x, 1, 200) ELSE x

(* Text: the lines of a string.  A line is a string of its own (fmt is     *)
(* "plain", txt the string) or one of the two formats that end in a        *)
(* payload (fmt is "ok" or "fail", txt the format, id and res its two      *)
(* arguments).                                                             *)
Plain(x) == [fmt |-> "plain", txt |-> x, id |-> PyNone, res |-> ""]
Text(x) == IF x = "" THEN <<>> ELSE <<Plain(x)>>

IsPlain(l) == l.fmt = "plain"

(* The characters c with c.isspace(), among those a string written here    *)
(* can hold: blank, tab, line feed, carriage return, form feed, and, as    *)
(* the characters themselves, U+000B, U+001C to U+001F, U+0085 and U+00A0. *)
Whitespace ==
    {" ", "\t", "\n", "\r", "\f", "", "", "", "", "", "", " "}

(* str.lstrip() and str.rstrip() of a string: the whitespace characters at *)
(* its start, at its end, go one by one.                                   *)
RECURSIVE LStripStr(_)
LStripStr(x) ==
    IF x # "" /\ SubSeq(x, 1, 1) \in Whitespace
    THEN LStripStr(SubSeq(x, 2, Len(x)))
    ELSE x

RECURSIVE RStripStr(_)
RStripStr(x) ==
    IF x # "" /\ SubSeq(x, Len(x), Len(x)) \in Whitespace
    THEN RStripStr(SubSeq(x, 1, Len(x) - 1))
    ELSE x

(* The last line without the blanks it ends with: those of its payload,    *)
(* and the blank before the payload when nothing of the payload is left.   *)
(* A payload given by its characters (len of them, blanks at the positions *)
(* of blank) keeps the characters up to its last one that is no blank.     *)
RStripLine(l) ==
    LET stripped == IF l.fmt = "ok" THEN "{i}." ELSE "Task {task_id} failed:"
    IN IF IsPlain(l) THEN [l EXCEPT !.txt = RStripStr(@)]
       ELSE IF l.txt \in {"{i}.", "Task {task_id} failed:"} THEN l
       ELSE IF "len" \in DOMAIN l
       THEN LET kept == {k \in 1..l.len : k \notin l.blank}
                n == IF kept = {} THEN 0
                     ELSE CHOOSE k \in kept : \A j \in kept : j <= k
            IN [l EXCEPT !.txt = IF n = 0 THEN stripped ELSE @,
                         !.len = n,
                         !.blank = {k \in @ : k <= n}]
       ELSE [l EXCEPT !.txt = IF RStripStr(l.res) = "" THEN stripped ELSE @,
                      !.res = RStripStr(@)]

RECURSIVE LStrip(_)
LStrip(t) ==
    IF t = <<>> THEN t
    ELSE IF IsPlain(Head(t)) /\ LStripStr(Head(t).txt) = "" THEN LStrip(Tail(t))
    ELSE IF IsPlain(Head(t))
    THEN <<[Head(t) EXCEPT !.txt = LStripStr(@)]>> \o Tail(t)
    ELSE t          \* a payload line starts with a digit or with "Task"

RECURSIVE RStrip(_)
RStrip(t) ==
    IF t = <<>> THEN t
    ELSE IF IsPlain(t[Len(t)]) /\ RStripStr(t[Len(t)].txt) = ""
    THEN RStrip(SubSeq(t, 1, Len(t) - 1))
    ELSE SubSeq(t, 1, Len(t) - 1) \o <<RStripLine(t[Len(t)])>>

(* str.strip() of the joined lines: the whitespace characters at either    *)
(* end go, whole blank lines and the blanks of the first and last line.    *)
Strip(t) == RStrip(LStrip(t))

-----------------------------------------------------------------------------
(* Refinement instructions, as the Reflector's JSON gives them.            *)
(* details is a string: nothing, the empty string, text that is no JSON,   *)
(* a JSON object (d holds it) or JSON of another type.                     *)

DNone == [kind |-> "none", d |-> EmptyDict]
DEmpty == [kind |-> "empty", d |-> EmptyDict]
DText == [kind |-> "text", d |-> EmptyDict]
(* Details that decode to a value dict.update rejects before it stores    *)
(* anything (a number, null, a list whose first element is no pair).       *)
DOther == [kind |-> "other", d |-> EmptyDict]
(* Details that decode to a list of key/value pairs: no mapping, so the    *)
(* add branch fails on it, while dict.update stores its pairs d.           *)
DPairs(d) == [kind |-> "pairs", d |-> d]
DObject(d) == [kind |-> "object", d |-> d]

(* bool(details_str) *)
DetailsTruthy(ds) == ds.kind \notin {"none", "empty"}

Instruction(action, task_id, details) ==
    [isdict |-> TRUE, action |-> action, task_id |-> task_id, details |-> details]

(* An element of the refinements list that is not a mapping (a string). *)
NotAMapping ==
    [isdict |-> FALSE, action |-> "", task_id |-> PyNone, details |-> DNone]

Remove(id) == Instruction("remove", id, DText)
Modify(id, d) == Instruction("modify", id, DObject(d))
Add(d) == Instruction("add", PyNone, DObject(d))

-----------------------------------------------------------------------------
(* The Refinement Engine: the loop of refine_step.                         *)

IntIds(ts) == {ts[i]["id"].n : i \in {j \in 1..Len(ts) :
                    Has(ts[j], "id") /\ ts[j]["id"].ty = "int"}}

(* new_task_id_counter, computed once before the loop. *)
NewTaskIdCounter(ts) ==
    IF IntIds(ts) = {} THEN 1
    ELSE (CHOOSE m \in IntIds(ts) : \A x \in IntIds(ts) : x <= m) + 1

(* RemoveTasks dropping the first matching task only. *)
RemoveFirstOnly(ts, task_id) ==
    LET hits == {i \in 1..Len(ts) : Get(ts[i], "id") = task_id}
        first == CHOOSE i \in hits : \A j \in hits : i <= j
    IN IF hits = {} THEN ts
       ELSE SubSeq(ts, 1, first - 1) \o SubSeq(ts, first + 1, Len(ts))

(* [t for t in current_tasks if t.get("id") != task_id] *)
RemoveTasks(ts, task_id) == SelectSeq(ts, LAMBDA t : Get(t, "id") # task_id)

(* Index of the first task whose id is task_id, 0 when there is none. *)
FirstMatch(ts, task_id) ==
    LET hits == {i \in 1..Len(ts) : Get(ts[i], "id") = task_id}
    IN IF hits = {} THEN 0 ELSE CHOOSE i \in hits : \A j \in hits : i <= j

(* task.update(details) on every task whose id is task_id. *)
ModifyEveryMatch(ts, task_id, d) ==
    [i \in 1..Len(ts) |-> IF Get(ts[i], "id") = task_id THEN Update(ts[i], d)
                          ELSE ts[i]]

(* task.update(details) on the first task whose id is task_id. *)
ModifyTasks(ts, task_id, d) ==
    LET i == FirstMatch(ts, task_id)
    IN IF i = 0 THEN ts ELSE [ts EXCEPT ![i] = Update(ts[i], d)]

(* The add branch that assigns the counter without advancing it. *)
AddTaskKeepingCounter(st, d) ==
    LET fresh == ~Has(d, "id") \/ d["id"] = PyNone
        nd == IF fresh THEN Update(d, [id |-> PyInt(st.counter)]) ELSE d
        given == IF fresh
                 THEN Append(st.given, [id |-> st.counter, present |-> IntIds(st.tasks)])
                 ELSE st.given
    IN IF RequiredKeys \subseteq DOMAIN nd
       THEN [st EXCEPT !.tasks = Append(st.tasks, nd), !.given = given]
       ELSE [st EXCEPT !.given = given]

(* The add branch appending whatever the details hold. *)
AddTaskAppendingPartial(st, d) ==
    LET fresh == ~Has(d, "id") \/ d["id"] = PyNone
        nd == IF fresh THEN Update(d, [id |-> PyInt(st.counter)]) ELSE d
        counter == IF fresh THEN st.counter + 1 ELSE st.counter
        given == IF fresh
                 THEN Append(st.given, [id |-> st.counter, present |-> IntIds(st.tasks)])
                 ELSE st.given
    IN [st EXCEPT !.tasks = Append(st.tasks, nd), !.counter = counter,
                  !.given = given]

(* The add branch: st is the loop's state, d the decoded details.          *)
(* st.given logs each id taken from the counter, with the integer ids the  *)
(* list held at that moment.                                               *)
AddTask(st, d) ==
    LET fresh == ~Has(d, "id") \/ d["id"] = PyNone
        nd == IF fresh THEN Update(d, [id |-> PyInt(st.counter)]) ELSE d
        counter == IF fresh THEN st.counter + 1 ELSE st.counter
        given == IF fresh
                 THEN Append(st.given, [id |-> st.counter, present |-> IntIds(st.tasks)])
                 ELSE st.given
    IN IF RequiredKeys \subseteq DOMAIN nd
       THEN [st EXCEPT !.tasks = Append(st.tasks, nd), !.counter = counter,
                       !.given = given]
       ELSE [st EXCEPT !.counter = counter, !.given = given]

(* The loop body letting the error of an instruction it cannot apply leave *)
(* the loop.                                                               *)
ApplyRefinementRaisingOnBadShape(st, r) ==
    LET staying == SelectSeq(st.src, LAMBDA s : Get(st.held[s], "id") # r.task_id)
        i == FirstMatch(st.tasks, r.task_id)
        updated == IF i = 0 \/ i > Len(st.src) THEN st.held
                   ELSE [st.held EXCEPT ![st.src[i]] = Update(@, r.details.d)]
    IN
    IF ~r.isdict THEN [st EXCEPT !.raised = TRUE]
    ELSE IF r.action = "remove" /\ r.task_id # PyNone
    THEN [st EXCEPT !.tasks = RemoveTasks(st.tasks, r.task_id), !.src = staying]
    ELSE IF r.action = "modify" /\ r.task_id # PyNone /\ DetailsTruthy(r.details)
    THEN IF r.details.kind \in {"object", "pairs"}
         THEN [st EXCEPT !.tasks = ModifyTasks(st.tasks, r.task_id, r.details.d),
                         !.held = updated]
         ELSE [st EXCEPT !.raised = TRUE]
    ELSE IF r.action = "add" /\ DetailsTruthy(r.details)
    THEN IF r.details.kind = "object"
         THEN AddTask(st, r.details.d)
         ELSE [st EXCEPT !.raised = TRUE]
    ELSE [st EXCEPT !.raised = TRUE]

(* One pass of the loop body on instruction r.  raised: the instruction is *)
(* no mapping, so refinement.get fails before the try block is entered.    *)
(* current_tasks (st.tasks) is a shallow copy of state["tasks"] (st.held): *)
(* the dicts of st.held still in it come first, st.src giving for each its *)
(* position in st.held, and the dicts the loop added follow.  A remove     *)
(* rebinds current_tasks and an add appends to it, which st.held does not  *)
(* see; task.update changes the dict itself, in both lists.                *)
ApplyRefinement(st, r) ==
    LET staying == SelectSeq(st.src, LAMBDA s : Get(st.held[s], "id") # r.task_id)
        i == FirstMatch(st.tasks, r.task_id)
        updated == IF i = 0 \/ i > Len(st.src) THEN st.held
                   ELSE [st.held EXCEPT ![st.src[i]] = Update(@, r.details.d)]
    IN
    IF ~r.isdict THEN [st EXCEPT !.raised = TRUE]
    ELSE IF r.action = "remove" /\ r.task_id # PyNone
    THEN [st EXCEPT !.tasks = RemoveTasks(st.tasks, r.task_id), !.src = staying]
    ELSE IF r.action = "modify" /\ r.task_id # PyNone /\ DetailsTruthy(r.details)
    THEN IF r.details.kind \in {"object", "pairs"}
         THEN [st EXCEPT !.tasks = ModifyTasks(st.tasks, r.task_id, r.details.d),
                         !.held = updated]
         ELSE st       \* JSONDecodeError, or update() rejecting the value: logged
    ELSE IF r.action = "add" /\ DetailsTruthy(r.details)
    THEN IF r.details.kind = "object"
         THEN AddTask(st, r.details.d)
         ELSE st       \* JSONDecodeError, or a TypeError on the value: logged
    ELSE st            \* unknown or incomplete instruction: logged

(* The loop taking the instructions from the last to the first. *)
RECURSIVE ApplyBackwards(_, _, _)
ApplyBackwards(refs, i, st) ==
    IF i > Len(refs) \/ st.raised THEN st
    ELSE ApplyBackwards(refs, i + 1, ApplyRefinement(st, refs[Len(refs) + 1 - i]))

RECURSIVE ApplyFrom(_, _, _)
ApplyFrom(refs, i, st) ==
    IF i > Len(refs) \/ st.raised THEN st
    ELSE ApplyFrom(refs, i + 1, ApplyRefinement(st, refs[i]))

(* The loop over the instructions, from the task list ts. *)
ApplyRefinements(ts, refs) ==
    ApplyFrom(refs, 1, [tasks |-> ts, counter |-> NewTaskIdCounter(ts),
                        raised |-> FALSE, given |-> <<>>,
                        held |-> ts, src |-> [i \in 1..Len(ts) |-> i]])

-----------------------------------------------------------------------------
(* The reflection verdict held in the workflow state.  present is FALSE    *)
(* for the empty dict {}.                                                  *)

EmptyReflection ==
    [present |-> FALSE, success |-> FALSE, complete |-> FALSE,
     feedback |-> "", refinements |-> <<>>]

Verdict(success, complete, feedback, refinements) ==
    [present |-> TRUE, success |-> success, complete |-> complete,
     feedback |-> feedback, refinements |-> refinements]

(* refine_step whose early return stores the instruction list's emptiness  *)
(* as the task list.                                                       *)
RefineStepDropsTasks(ts, refl) ==
    LET out == ApplyRefinements(ts, refl.refinements)
    IN IF refl.refinements = <<>>
       THEN [raised |-> FALSE, cleared |-> FALSE, tasks |-> <<>>, given |-> <<>>]
       ELSE [raised |-> out.raised, cleared |-> ~out.raised, tasks |-> out.tasks,
             given |-> out.given]

(* refine_step that stores the new task list and leaves the round's        *)
(* results, verdict and error message in place.                            *)
RefineStepKeepingRound(ts, refl) ==
    LET out == ApplyRefinements(ts, refl.refinements)
    IN IF refl.refinements = <<>>
       THEN [raised |-> FALSE, cleared |-> FALSE, tasks |-> ts, given |-> <<>>]
       ELSE [raised |-> out.raised, cleared |-> FALSE, tasks |-> out.tasks,
             given |-> out.given]

(* refine_step.  Returns the fields it sets; raised: an exception left it, *)
(* and tasks is then state["tasks"] as the loop's updates have left it.    *)
refine_step(ts, refl) ==
    LET refinements == refl.refinements
        out == ApplyRefinements(ts, refinements)
    IN IF refinements = <<>>
       THEN [raised |-> FALSE, cleared |-> FALSE, tasks |-> ts, given |-> <<>>]
       ELSE [raised |-> out.raised, cleared |-> ~out.raised,
             tasks |-> IF out.raised THEN out.held ELSE out.tasks,
             given |-> out.given]

-----------------------------------------------------------------------------
(* The Tool Execution Adapter (ToolAgent.execute_task).                    *)

Tools == {"search", "calculator"}      \* self.tools
StopAfterAttempt == 3                  \* @retry(stop=stop_after_attempt(3))

Result(task_id, result, status) ==
    [task_id |-> task_id, result |-> result, status |-> status]

(* bool(v) of a Python value. *)
Truthy(v) == v \notin {PyNone, PyInt(0), PyStr("")}

(* What the capability does on one call: it raises, or it returns the     *)
(* value named.                                                            *)
Raises == "raises"
CapOutcomes == {Raises, "4.0"}

(* What it does on each attempt the retry decorator may make. *)
Attempts(outcomes) == [1..StopAfterAttempt -> outcomes]

(* allowed_chars = set("0123456789+-*/.() ") *)
AllowedChars == {"0", "1", "2", "3", "4", "5", "6", "7", "8", "9",
                 "+", "-", "*", "/", ".", "(", ")", " "}

MaxExpressionLength == 100             \* len(expression_cleaned) > 100

(* expression.replace(" ", "") *)
RemoveSpaces(x) == Join(SelectSeq(Chars(x), LAMBDA c : c # " "))

(* The calculator evaluating whatever it is given, spaces removed. *)
CalculatorUnchecked(expression) ==
    LET expression_cleaned == RemoveSpaces(expression)
    IN IF expression_cleaned = ""
       THEN [reached |-> FALSE, evaluated |-> ""]
       ELSE IF Len(expression_cleaned) > MaxExpressionLength
       THEN [reached |-> FALSE, evaluated |-> ""]
       ELSE [reached |-> TRUE, evaluated |-> expression_cleaned]

(* The calculator tool, on a str, up to its call of eval.  reached: eval   *)
(* is called, on the text evaluated; otherwise the tool raised ValueError. *)
calculator(expression) ==
    LET expression_cleaned == RemoveSpaces(expression)
    IN IF \E i \in 1..Len(expression) : Chars(expression)[i] \notin AllowedChars
       THEN [reached |-> FALSE, evaluated |-> ""]
       ELSE IF expression_cleaned = ""
       THEN [reached |-> FALSE, evaluated |-> ""]
       ELSE IF Len(expression_cleaned) > MaxExpressionLength
       THEN [reached |-> FALSE, evaluated |-> ""]
       ELSE [reached |-> TRUE, evaluated |-> expression_cleaned]

(* self.tools[tool_name](description): what the call does, cap being what  *)
(* the capability does once its own checks have passed (eval for the       *)
(* calculator, the search client for search).  The calculator's checks are *)
(* those of a str; what the tool wrapper makes of a description of another *)
(* type is part of cap.                                                    *)
Dispatch(tool_name, description, cap) ==
    IF tool_name = PyStr("calculator") /\ description.ty = "str"
          /\ ~calculator(description.s).reached
    THEN Raises
    ELSE cap

(* The expressions the calculator evaluates when the adapter is given the  *)
(* tasks ts.                                                               *)
Evaluated(ts) ==
    {calculator(ts[i]["description"].s).evaluated :
        i \in {k \in 1..Len(ts) :
                  /\ Get(ts[k], "tool") = PyStr("calculator")
                  /\ Get(ts[k], "description").ty = "str"
                  /\ calculator(Get(ts[k], "description").s).reached}}

(* The function body that reads the id under the key task_id. *)
ExecuteTaskBodyOtherKey(task, cap) ==
    LET task_id == IF Has(task, "task_id") THEN task["task_id"] ELSE PyStr("unknown_task")
        tool_name == Get(task, "tool")
        description == Get(task, "description")
    IN IF ~Truthy(tool_name)
       THEN [raised |-> TRUE, called |-> FALSE,
             result |-> Result(task_id, "Task missing tool field", "")]
       ELSE IF ~(tool_name.ty = "str" /\ tool_name.s \in Tools)
       THEN [raised |-> TRUE, called |-> FALSE,
             result |-> Result(task_id, "Unknown tool", "")]
       ELSE IF description = PyNone
       THEN [raised |-> TRUE, called |-> FALSE,
             result |-> Result(task_id, "Task missing description field for tool input", "")]
       ELSE IF Dispatch(tool_name, description, cap) # Raises
       THEN [raised |-> FALSE, called |-> TRUE,
             result |-> Result(task_id, cap, "completed")]
       ELSE [raised |-> FALSE, called |-> TRUE,
             result |-> Result(task_id, "Error during execution of task", "failed")]

(* One call of the function body.  cap: what the capability does when it   *)
(* is reached.  raised: the body raised TaskExecutionError, which the       *)
(* retry decorator sees; called: the capability was called.                *)
ExecuteTaskBody(task, cap) ==
    LET task_id == IF Has(task, "id") THEN task["id"] ELSE PyStr("unknown_task")
        tool_name == Get(task, "tool")
        description == Get(task, "description")
    IN IF ~Truthy(tool_name)
       THEN [raised |-> TRUE, called |-> FALSE,
             result |-> Result(task_id, "Task missing tool field", "")]
       ELSE IF ~(tool_name.ty = "str" /\ tool_name.s \in Tools)
       THEN [raised |-> TRUE, called |-> FALSE,
             result |-> Result(task_id, "Unknown tool", "")]
       ELSE IF description = PyNone
       THEN [raised |-> TRUE, called |-> FALSE,
             result |-> Result(task_id, "Task missing description field for tool input", "")]
       ELSE IF Dispatch(tool_name, description, cap) # Raises
       THEN [raised |-> FALSE, called |-> TRUE,
             result |-> Result(task_id, cap, "completed")]
       ELSE [raised |-> FALSE, called |-> TRUE,
             result |-> Result(task_id, "Error during execution of task", "failed")]

(* The decorated function: the body is called again while it raises, and   *)
(* after the last attempt the decorator raises RetryError.  caps[i] is what *)
(* the capability does if attempt i reaches it; attempts and calls count   *)
(* the calls of the body and of the capability.                            *)
RECURSIVE Retrying(_, _, _, _)
Retrying(task, caps, attempt, calls) ==
    LET r == ExecuteTaskBody(task, caps[attempt])
        n == calls + (IF r.called THEN 1 ELSE 0)
    IN IF ~r.raised
       THEN [raised |-> FALSE, result |-> r.result, attempts |-> attempt, calls |-> n]
       ELSE IF attempt >= StopAfterAttempt
       THEN [raised |-> TRUE, result |-> Result(r.result.task_id, "RetryError", ""),
             attempts |-> attempt, calls |-> n]
       ELSE Retrying(task, caps, attempt + 1, n)

execute_task(task, caps) == Retrying(task, caps, 1, 0)

(* The loop body of execute_step for one task. *)
ExecuteOne(task, caps) ==
    LET r == execute_task(task, caps)
    IN IF ~r.raised THEN r.result
       ELSE Result(Get(task, "id"), "Unexpected error: RetryError",
                   "failed_unexpectedly")

(* The loop of execute_step leaving at the first result that is not        *)
(* completed.                                                              *)
ExecuteTasksStoppingAtFailure(ts, caps) ==
    LET all == [i \in 1..Len(ts) |-> ExecuteOne(ts[i], caps[i])]
        bad == {i \in 1..Len(ts) : all[i].status # "completed"}
    IN IF bad = {} THEN all
       ELSE SubSeq(all, 1, CHOOSE i \in bad : \A k \in bad : i <= k)

(* The loop that appends a result for the tasks that completed only. *)
ExecuteTasksKeepingCompleted(ts, caps) ==
    SelectSeq([i \in 1..Len(ts) |-> ExecuteOne(ts[i], caps[i])],
              LAMBDA r : r.status = "completed")

(* The loop of execute_step over the task list: one result per task, in    *)
(* list order.                                                             *)
ExecuteTasks(ts, caps) == [i \in 1..Len(ts) |-> ExecuteOne(ts[i], caps[i])]

-----------------------------------------------------------------------------
(* The Reflector Adapter (ReflectorAgent.evaluate_results), from what the  *)
(* Reflector's model answered (raw).  raw.kind: "failed_call" (llm.invoke  *)
(* raises), "empty" (no content), "undecodable" (json.loads fails),        *)
(* "value" (JSON, but no object) or "object".  raw.error is the text of    *)
(* the exception of llm.invoke or json.loads, raw.content the text         *)
(* json.loads is given, raw.type the class of a decoded value that is no   *)
(* object, raw.keys the strings s with s in reflection, in their order     *)
(* (the keys of an object, the elements of a list), raw.reftype the class  *)
(* of reflection.get("refinements").                                       *)

VerdictFields == {"success", "complete", "feedback", "refinements"}

(* repr(x) of a str: in apostrophes, or in quotation marks when x holds an *)
(* apostrophe and no quotation mark; the quoting character and the         *)
(* backslash get a backslash, tab, line feed and carriage return their     *)
(* letter, and the other characters that are not printable their code      *)
(* (low holds U+0001 to U+001F, high U+007F to U+00A0, as the characters   *)
(* themselves).                                                            *)
StrRepr(x) ==
    LET cs == Chars(x)
        has(c) == \E i \in 1..Len(cs) : cs[i] = c
        quote == IF has("'") /\ ~has("\"") THEN "\"" ELSE "'"
        low == "\t\n\f\r"
        high == " "
        soft == "­"
        digit(n) == SubSeq("0123456789abcdef", n + 1, n + 1)
        hex(n) == "\\x" \o digit(n \div 16) \o digit(n % 16)
        code(c) == IF \E i \in 1..Len(low) : SubSeq(low, i, i) = c
                   THEN CHOOSE i \in 1..Len(low) : SubSeq(low, i, i) = c
                   ELSE IF \E i \in 1..Len(high) : SubSeq(high, i, i) = c
                   THEN 126 + CHOOSE i \in 1..Len(high) : SubSeq(high, i, i) = c
                   ELSE IF c = soft THEN 173
                   ELSE 0
        escaped(c) == IF c \in {quote, "\\"} THEN "\\" \o c
                      ELSE IF c = "\t" THEN "\\t"
                      ELSE IF c = "\n" THEN "\\n"
                      ELSE IF c = "\r" THEN "\\r"
                      ELSE IF code(c) # 0 THEN hex(code(c))
                      ELSE c
    IN quote \o Join([i \in 1..Len(cs) |-> escaped(cs[i])]) \o quote

(* str(list(reflection.keys())) *)
ListRepr(keys) ==
    LET items[i \in 0..Len(keys)] ==
            IF i = 0 THEN ""
            ELSE items[i - 1] \o (IF i = 1 THEN "" ELSE ", ") \o StrRepr(keys[i])
    IN "[" \o items[Len(keys)] \o "]"

evaluate_results(raw) ==
    LET failure(msg) == [raised |-> TRUE, msg |-> msg, verdict |-> EmptyReflection]
        has_fields == VerdictFields \subseteq {raw.keys[i] : i \in 1..Len(raw.keys)}
        (* except Exception, line 147 *)
        unexpected(e) ==
            failure("Unexpected error during reflection: " \o e \o ". " \o
                    (IF raw.content = "" THEN ""
                     ELSE "Problematic JSON content (approximate): " \o
                          First200(raw.content) \o "..."))
    IN IF raw.kind = "failed_call" THEN unexpected(raw.error)
       ELSE IF raw.kind = "empty"
       THEN failure("Empty response from LLM during reflection")
       ELSE IF raw.kind = "undecodable"
       THEN failure("Failed to parse reflection JSON: Failed to parse JSON: " \o
                    raw.error \o "\nContent: " \o raw.content)
       ELSE IF raw.kind = "value" /\ raw.type \notin {"list", "str"}
       THEN \* field in reflection, line 131
            unexpected("argument of type '" \o raw.type \o "' is not iterable")
       ELSE IF raw.kind = "value"
       THEN \* reflection.keys(), line 132, or reflection.get, line 134
            unexpected("'" \o raw.type \o "' object has no attribute '" \o
                       (IF has_fields THEN "get" ELSE "keys") \o "'")
       ELSE IF ~has_fields
       THEN failure("Reflection object missing required fields. Expected " \o
                    "['success', 'complete', 'feedback', 'refinements'], got " \o
                    ListRepr(raw.keys))
       ELSE IF raw.reftype # "list"
       THEN failure("'refinements' field must be a list, got <class '" \o
                    raw.reftype \o "'>")
       ELSE [raised |-> FALSE, msg |-> "",
             verdict |-> Verdict(raw.success, raw.complete, raw.feedback,
                                 raw.refinements)]

(* f"Critical error during result reflection: {e}" *)
ReflectionFailureText(msg) == "Critical error during result reflection: " \o msg

NoTasksText == "Planning failed to produce any tasks."

-----------------------------------------------------------------------------
(* reflect_step, with raw what the Reflector's model returns if asked and  *)
(* has_query telling whether the state has the key "query".  called:       *)
(* evaluate_results was called; failed: it raised.                         *)

(* reflect_step asking the Reflector whatever the state holds. *)
ReflectStepAlwaysAsking(has_query, res, err, ts, raw) ==
    LET r == evaluate_results(raw)
    IN IF r.raised
       THEN [reflection |-> Verdict(FALSE, FALSE, ReflectionFailureText(r.msg), <<>>),
             error_message |-> ReflectionFailureText(r.msg),
             called |-> TRUE, failed |-> TRUE]
       ELSE [reflection |-> r.verdict, error_message |-> err,
             called |-> TRUE, failed |-> FALSE]

reflect_step(has_query, res, err, ts, raw) ==
    LET r == evaluate_results(raw)
        \* state["query"] raises KeyError: except Exception, lines 100-103
        no_query == "Unexpected critical error during result reflection: 'query'"
    IN IF res = <<>> /\ err = ""
       THEN [reflection |-> Verdict(FALSE, FALSE,
                               IF ts = <<>> THEN "No tasks were planned."
                               ELSE "No tasks were executed or no results produced.",
                               <<>>),
             error_message |-> err, called |-> FALSE, failed |-> FALSE]
       ELSE IF err # ""
       THEN [reflection |-> Verdict(FALSE, FALSE, err, <<>>),
             error_message |-> err, called |-> FALSE, failed |-> FALSE]
       ELSE IF ~has_query
       THEN [reflection |-> Verdict(FALSE, FALSE, no_query, <<>>),
             error_message |-> no_query, called |-> FALSE, failed |-> FALSE]
       ELSE IF r.raised
       THEN [reflection |-> Verdict(FALSE, FALSE, ReflectionFailureText(r.msg), <<>>),
             error_message |-> ReflectionFailureText(r.msg),
             called |-> TRUE, failed |-> TRUE]
       ELSE [reflection |-> r.verdict, error_message |-> err,
             called |-> TRUE, failed |-> FALSE]

-----------------------------------------------------------------------------
(* The decision after reflection (should_continue_decision).               *)

(* state["iteration"] = state.get("iteration", 0) + 1 *)
Incremented(it) == it + 1

AllCompleted(res) == \A i \in 1..Len(res) : res[i].status = "completed"

(* The decision without the all-tasks-successful check. *)
DecisionWithoutLoopGuard(err, it, maxit, refl, res) ==
    IF err # "" THEN "end_workflow"
    ELSE IF Incremented(it) >= maxit THEN "end_workflow"
    ELSE IF refl.complete /\ refl.success THEN "end_workflow"
    ELSE IF refl.refinements # <<>> /\ Incremented(it) < maxit THEN "refine_tasks"
    ELSE "end_workflow"

(* The decision testing the verdict before the iteration limit. *)
DecisionVerdictFirst(err, it, maxit, refl, res) ==
    IF err # "" THEN "end_workflow"
    ELSE IF refl.complete /\ refl.success THEN "end_workflow"
    ELSE IF AllCompleted(res) /\ ~refl.complete THEN "end_workflow"
    ELSE IF refl.refinements # <<>> THEN "refine_tasks"
    ELSE IF Incremented(it) >= maxit THEN "end_workflow"
    ELSE "end_workflow"

should_continue_decision(err, it, maxit, refl, res) ==
    IF err # "" THEN "end_workflow"
    ELSE IF Incremented(it) >= maxit THEN "end_workflow"
    ELSE IF refl.complete /\ refl.success THEN "end_workflow"
    ELSE IF AllCompleted(res) /\ ~refl.complete THEN "end_workflow"
    ELSE IF refl.refinements # <<>> /\ Incremented(it) < maxit THEN "refine_tasks"
    ELSE "end_workflow"

-----------------------------------------------------------------------------
(* The Response Synthesizer (generate_response_step).                      *)

OkHeader == Plain("Successfully completed tasks yielded:")
ResponseLimit == 500                   \* str(res_data)[:500]

(* f"{i}. {str(res_data)[:500]}".  A result whose payload is given by its  *)
(* characters (r.len of them, blanks at r.blank) is shown by the first     *)
(* ResponseLimit of them.                                                  *)
OkLine(i, r) ==
    IF "len" \in DOMAIN r
    THEN [fmt |-> "ok", txt |-> "{i}. {result}", id |-> PyInt(i), res |-> r.result,
          len |-> IF r.len > ResponseLimit THEN ResponseLimit ELSE r.len,
          blank |-> {k \in r.blank : k <= ResponseLimit}]
    ELSE [fmt |-> "ok", txt |-> "{i}. {result}", id |-> PyInt(i), res |-> r.result]
FailHeader == <<Plain(""), Plain("Some tasks encountered issues:")>>
FailLine(r) == [fmt |-> "fail", txt |-> "Task {task_id} failed: {result}",
                id |-> r.task_id, res |-> r.result]

generate_response_step(err, res, refl, ts) ==
    LET ok == SelectSeq(res, LAMBDA r : r.status = "completed")
        failed == SelectSeq(res, LAMBDA r : r.status # "completed")
        okpart == IF ok = <<>> THEN <<>>
                  ELSE <<OkHeader>> \o [i \in 1..Len(ok) |-> OkLine(i, ok[i])]
        failpart == IF failed = <<>> THEN <<>>
                    ELSE FailHeader \o [i \in 1..Len(failed) |-> FailLine(failed[i])]
        parts == okpart \o failpart
        feedback == IF refl.present THEN refl.feedback
                    ELSE "Workflow concluded. No specific results to report."
        fallback == <<Plain(feedback)>> \o
                    (IF ts = <<>> /\ res = <<>>
                     THEN <<Plain("No tasks were planned or executed.")>> ELSE <<>>)
    IN IF err # "" THEN Text(err)
       ELSE IF parts # <<>> THEN Strip(parts)
       ELSE Strip(fallback)

-----------------------------------------------------------------------------
(* The Planner Adapter (PlannerAgent.generate_plan).                       *)

RawItem(d) == [isdict |-> TRUE, d |-> d]
NotADict == [isdict |-> FALSE, d |-> EmptyDict]

(* ''.join(c for c in expr if c in allowed_chars).strip() *)
clean_calculator_expression(expr) ==
    LET cleaned == Join(SelectSeq(Chars(expr), LAMBDA c : c \in AllowedChars))
    IN RStripStr(LStripStr(cleaned))

validate_task(task) ==
    /\ RequiredKeys \subseteq DOMAIN task
    /\ task["id"].ty \in {"int", "str"}
    /\ task["description"].ty = "str"
    /\ task["tool"].ty = "str"
    /\ task["tool"].s \in {"search", "calculator"}

(* The loop of generate_plan leaving at the first item it does not accept. *)
PlanFromStoppingAtInvalid(items, i, valid) ==
    LET bad == {k \in i..Len(items) :
                   \/ ~items[k].isdict
                   \/ ~validate_task(items[k].d)}
        last == IF bad = {} THEN Len(items)
                ELSE (CHOOSE k \in bad : \A m \in bad : k <= m) - 1
    IN valid \o [k \in 1..(last - i + 1) |->
                   LET d == items[i + k - 1].d
                   IN IF d["tool"] = PyStr("calculator")
                      THEN [d EXCEPT !["description"] =
                              PyStr(clean_calculator_expression(d["description"].s))]
                      ELSE d]

(* The loop of generate_plan over the items from item i on, valid being    *)
(* the tasks accepted so far.                                              *)
RECURSIVE PlanFrom(_, _, _)
PlanFrom(items, i, valid) ==
    IF i > Len(items) THEN valid
    ELSE LET item == items[i]
         IN IF ~item.isdict THEN PlanFrom(items, i + 1, valid)
            ELSE IF ~validate_task(item.d) THEN PlanFrom(items, i + 1, valid)
            ELSE IF item.d["tool"] = PyStr("calculator")
            THEN LET cleaned_description ==
                         clean_calculator_expression(item.d["description"].s)
                 IN IF cleaned_description = ""
                    THEN PlanFrom(items, i + 1, valid)
                    ELSE PlanFrom(items, i + 1,
                            Append(valid, [item.d EXCEPT
                                !["description"] = PyStr(cleaned_description)]))
            ELSE PlanFrom(items, i + 1, Append(valid, item.d))

(* generate_plan on the answer u of the planner's model.  u.error is the   *)
(* text of the exception of the failing statement (llm.invoke, json.loads, *)
(* or parsed_tasks_data[0] of line 233 on a value that is no list),        *)
(* u.content the text json.loads is given, u.type the class of a decoded   *)
(* value that is no list.  raised: it raised, cls being the exception's    *)
(* class and msg its text.                                                 *)
generate_plan(u) ==
    LET failure(msg) == [raised |-> TRUE, cls |-> "PlanningError", msg |-> msg,
                         tasks |-> <<>>]
        unexpected ==
            "Unexpected error generating plan: " \o u.error \o ". " \o
            (IF u.content = "" THEN ""
             ELSE "Problematic JSON content (approximate): " \o
                  First200(u.content) \o "...")
    IN IF u.kind = "failed_call" THEN failure(unexpected)
       ELSE IF u.kind = "empty" THEN failure("Empty response from LLM")
       ELSE IF u.kind = "undecodable"
       THEN [failure("Failed to parse JSON: " \o u.error \o "\nContent: " \o
                     u.content) EXCEPT !.cls = "JSONParsingError"]
       ELSE IF u.kind # "list"
       THEN IF u.error # "" THEN failure(unexpected)
            ELSE failure("Expected list of tasks from LLM, got: <class '" \o
                         u.type \o "'>")
       ELSE LET valid_tasks == PlanFrom(u.items, 1, <<>>)
            IN IF valid_tasks = <<>> /\ u.items # <<>>
               THEN failure("No valid tasks derived from LLM response.")
               ELSE [raised |-> FALSE, cls |-> "", msg |-> "", tasks |-> valid_tasks]

(* f"Critical error during task planning: {e}" *)
PlanStepErrorText(msg) == "Critical error during task planning: " \o msg

(* plan_step, p being what planner.generate_plan did and err the state's   *)
(* error_message.  Returns the fields of the state as it leaves them.      *)
plan_step(err, p) ==
    IF ~p.raised THEN [tasks |-> p.tasks, error_message |-> err]
    ELSE IF p.cls \in {"PlanningError", "JSONParsingError"}
    THEN [tasks |-> <<>>, error_message |-> PlanStepErrorText(p.msg)]
    ELSE [tasks |-> <<>>,
          error_message |-> "Unexpected critical error during task planning: " \o p.msg]

(* An answer of the planner's model: kind "failed_call" (llm.invoke        *)
(* raises), "empty" (no content), "undecodable" (json.loads fails),        *)
(* "not_a_list" (JSON, but no list), "list" (the items of the list).       *)
Answer(kind, error, content, type, items) ==
    [kind |-> kind, error |-> error, content |-> content, type |-> type,
     items |-> items]

(* The answers generate_plan raises on: a failing call, no content, text   *)
(* that is no JSON (_normalize_json has put it in brackets), the objects   *)
(* {} and {"tasks": []}, and a list whose one item is no mapping.          *)
UpstreamFailures ==
    {Answer("failed_call", "Connection error.", "", "", <<>>),
     Answer("empty", "", "", "", <<>>),
     Answer("undecodable", "Expecting value: line 1 column 2 (char 1)",
            "[Sorry, I cannot plan this.]", "", <<>>),
     Answer("not_a_list", "", "{}", "dict", <<>>),
     Answer("not_a_list", "0", "{\"tasks\": []}", "dict", <<>>),
     Answer("list", "", "", "", <<NotADict>>)}

-----------------------------------------------------------------------------
(* What the collaborators can hand to the workflow in a run.               *)

BoundedSeq(S, n) == UNION {[1..k -> S] : k \in 0..n}

CalcTask(id) == Task(id, PyStr("2 + 2"), PyStr("calculator"))
SearchTask(id) == Task(id, PyStr("weather in Tokyo"), PyStr("search"))

(* Tasks generate_plan lets through: id, description and tool present and  *)
(* typed, tool one of the allowed ones.  The plans here number their tasks *)
(* 1, 2, ... and alternate calculator and search tasks.                    *)
PlanTasks(n) ==
    [i \in 1..n |-> IF i % 2 = 1 THEN CalcTask(PyInt(i)) ELSE SearchTask(PyInt(i))]

(* What generate_plan gives plan_step: a list of valid tasks, or the error *)
(* it raises on one of UpstreamFailures.                                   *)
PlannerResults ==
    {generate_plan(u) : u \in UpstreamFailures} \cup
    {[raised |-> FALSE, cls |-> "", msg |-> "", tasks |-> PlanTasks(n)] :
        n \in 0..MaxPlan}

(* Refinement instructions the Reflector's model gives in a run. *)
WfInstructions ==
    { Remove(PyInt(1)),
      Add([description |-> PyStr("3 * 3"), tool |-> PyStr("calculator")]),
      Modify(PyInt(1), [tool |-> PyStr("translate")]),
      Instruction("replace", PyInt(1), DText),
      NotAMapping }

RawVerdict(success, complete, refinements) ==
    [kind |-> "object", error |-> "", content |-> "", type |-> "dict",
     keys |-> <<"success", "complete", "feedback", "refinements">>,
     reftype |-> "list",
     success |-> success, complete |-> complete, feedback |-> "feedback",
     refinements |-> refinements]

(* What the Reflector's model returns: verdicts, and the answers           *)
(* evaluate_results raises on (a failing call; no content; no JSON; the    *)
(* JSON values [1, 2] and null; the complete field missing; refinements    *)
(* not a list).                                                            *)
ReflectorOutputs ==
    { RawVerdict(s, c, refs) :
        s \in BOOLEAN, c \in BOOLEAN, refs \in BoundedSeq(WfInstructions, MaxWfRefs) }
    \cup
    { [RawVerdict(FALSE, FALSE, <<>>) EXCEPT
          !.kind = "failed_call", !.error = "Connection error.", !.keys = <<>>],
      [RawVerdict(FALSE, FALSE, <<>>) EXCEPT !.kind = "empty", !.keys = <<>>],
      [RawVerdict(FALSE, FALSE, <<>>) EXCEPT
          !.kind = "undecodable", !.keys = <<>>,
          !.error = "Expecting value: line 1 column 1 (char 0)",
          !.content = "Sorry, I cannot judge this."],
      [RawVerdict(FALSE, FALSE, <<>>) EXCEPT
          !.kind = "value", !.type = "list", !.content = "[1, 2]", !.keys = <<>>],
      [RawVerdict(FALSE, FALSE, <<>>) EXCEPT
          !.kind = "value", !.type = "NoneType", !.content = "null", !.keys = <<>>],
      [RawVerdict(FALSE, FALSE, <<>>) EXCEPT
          !.keys = <<"success", "feedback", "refinements">>],
      [RawVerdict(FALSE, FALSE, <<>>) EXCEPT !.reftype = "str"] }

(* The task list a verdict's instructions lead to stays within the bounds. *)
WithinBounds(ts, refs) ==
    LET out == ApplyRefinements(ts, refs)
    IN /\ Len(out.tasks) <= MaxTasks
       /\ IntIds(out.tasks) \subseteq 0..MaxId

-----------------------------------------------------------------------------
(* run_workflow and the graph.                                             *)

Nodes == {"plan", "execute", "reflect", "refine", "generate_response"}

NoReturn ==
    [returned |-> FALSE, success |-> FALSE, response |-> <<>>,
     tasks |-> <<>>, results |-> <<>>]

(* except Exception, with final_state still None. *)
ExceptionReturn(text) ==
    [returned |-> TRUE, success |-> FALSE, response |-> Text(text),
     tasks |-> <<>>, results |-> <<>>]

InitHist ==
    [refines |-> 0,              \* refine transitions taken
     decisions |-> 0,            \* decisions made
     compared |-> 0,             \* the value the last decision compared
     route |-> "",               \* what the last decision returned
     decide_error |-> "",        \* error_message at the last decision
     adapter_invoked |-> FALSE,  \* execute_step called execute_task in this run
     reflect_failed |-> FALSE,   \* evaluate_results raised in this run
     reflect_called |-> FALSE,   \* the last reflect_step called evaluate_results
     reflect_error |-> "",       \* error_message as the last reflect_step found it
     refine_ran |-> FALSE,       \* refine_step ran
     refine_tasks |-> <<>>,      \* the task list the last step, refine_step, was given
     refine_refs |-> <<>>,       \* and its instructions
     refine_given |-> <<>>,      \* the ids it took from its counter
     refine_after_fail |-> FALSE,\* refine_step ran after a Reflector failure
     responded |-> FALSE,        \* generate_response_step ran
     crashed |-> FALSE,          \* an exception left invoke()
     raised |-> "",              \* the exception that left run_workflow
     tool_done |-> FALSE,        \* execute_task was called on its own
     tool_raised |-> FALSE,      \* an exception left it
     tool_attempts |-> 0,        \* calls of its body
     tool_calls |-> 0,           \* calls of the capability
     tool_caps |-> <<>>,         \* what the capability did on each attempt
     upstream |-> [kind |-> "none", items |-> <<>>],
                                 \* what the planner's model answered
     evaluated |-> {}]           \* what the calculator evaluated in the last round

Init ==
    /\ tasks = <<>>
    /\ results = <<>>
    /\ reflection = EmptyReflection
    /\ final_response = <<>>
    /\ iteration = 0
    /\ max_iterations \in 1..MaxMaxIterations
    /\ error_message = ""
    /\ pc = "create"
    /\ steps = 0
    /\ ret = NoReturn
    /\ hist = InitHist

(* create_workflow(), the first statement of run_workflow, outside its try *)
(* block: it builds the three agents.  PlannerAgent() and ReflectorAgent() *)
(* raise the builtin EnvironmentError when GROQ_API_KEY is not set, and    *)
(* PlanningError, ReflectionError when ChatGroq cannot be built; each      *)
(* leaves run_workflow, which then returns nothing.                        *)
create_workflow ==
    /\ pc = "create"
    /\ \E e \in {"", "GROQ_API_KEY environment variable is not set",
                 "Failed to initialize ChatGroq: Connection error.",
                 "Failed to initialize ChatGroq for ReflectorAgent: Connection error."} :
          /\ pc' = IF e = "" THEN "plan" ELSE "raised"
          /\ hist' = [hist EXCEPT !.raised = e]
    /\ UNCHANGED <<tasks, results, reflection, final_response, iteration,
                   max_iterations, error_message, steps, ret>>

(* The graph runs node n as its next step. *)
RunsNode(n) ==
    /\ pc = n
    /\ steps < RecursionLimit
    /\ steps' = steps + 1

PlanStep ==
    /\ RunsNode("plan")
    /\ \E p \in PlannerResults :
        /\ tasks' = plan_step(error_message, p).tasks
        /\ error_message' = plan_step(error_message, p).error_message
    /\ pc' = "execute"
    /\ UNCHANGED <<results, reflection, final_response, iteration,
                   max_iterations, ret, hist>>

ExecuteStep ==
    /\ RunsNode("execute")
    /\ IF tasks = <<>>
       THEN /\ results' = <<>>
            /\ error_message' = IF error_message = "" THEN NoTasksText
                                ELSE error_message
       ELSE /\ \E caps \in [1..Len(tasks) -> Attempts(CapOutcomes)] :
                 results' = ExecuteTasks(tasks, caps)
            /\ UNCHANGED error_message
    /\ pc' = "reflect"
    /\ hist' = [hist EXCEPT !.refine_tasks = <<>>, !.refine_refs = <<>>,
                             !.refine_given = <<>>,
                             !.evaluated = Evaluated(tasks),
                             !.adapter_invoked = @ \/ tasks # <<>>]
    /\ UNCHANGED <<tasks, reflection, final_response, iteration,
                   max_iterations, ret>>

ReflectStep ==
    /\ RunsNode("reflect")
    /\ \E raw \in ReflectorOutputs :
        LET r == reflect_step(TRUE, results, error_message, tasks, raw)
        IN /\ r.called => WithinBounds(tasks, raw.refinements)
           /\ reflection' = r.reflection
           /\ error_message' = r.error_message
           /\ hist' = [hist EXCEPT !.reflect_failed = @ \/ r.failed,
                                   !.reflect_called = r.called,
                                   !.reflect_error = error_message]
    /\ pc' = "decide"
    /\ UNCHANGED <<tasks, results, final_response, iteration, max_iterations, ret>>

(* The conditional edge after reflect.  The routing function increments    *)
(* iteration in the snapshot it is given; the graph takes from it the name *)
(* of the next node only, so the state's iteration is what it was.         *)
Decide ==
    /\ pc = "decide"
    /\ LET route == should_continue_decision(error_message, iteration,
                         max_iterations, reflection, results)
       IN /\ pc' = IF route = "refine_tasks" THEN "refine" ELSE "generate_response"
          /\ hist' = [hist EXCEPT
                         !.decisions = @ + 1,
                         !.compared = Incremented(iteration),
                         !.route = route,
                         !.decide_error = error_message]
    /\ UNCHANGED <<tasks, results, reflection, final_response, iteration,
                   max_iterations, error_message, steps, ret>>

RefineStep ==
    /\ RunsNode("refine")
    /\ LET r == refine_step(tasks, reflection)
       IN /\ hist' = [hist EXCEPT
                         !.refines = @ + 1,
                         !.refine_ran = TRUE,
                         !.refine_tasks = tasks,
                         !.refine_refs = reflection.refinements,
                         !.refine_given = r.given,
                         !.refine_after_fail = @ \/ hist.reflect_failed,
                         !.crashed = r.raised]
          /\ IF r.raised
             THEN /\ pc' = "returned"
                  /\ ret' = ExceptionReturn("Unexpected workflow error: 'str' object has no attribute 'get'")
                  /\ tasks' = r.tasks
                  /\ UNCHANGED <<results, reflection, error_message>>
             ELSE /\ pc' = "execute"
                  /\ tasks' = r.tasks
                  /\ IF r.cleared
                     THEN /\ results' = <<>>
                          /\ reflection' = EmptyReflection
                          /\ error_message' = ""
                     ELSE UNCHANGED <<results, reflection, error_message>>
                  /\ UNCHANGED ret
    /\ UNCHANGED <<final_response, iteration, max_iterations>>

GenerateResponseStep ==
    /\ RunsNode("generate_response")
    /\ final_response' = generate_response_step(error_message, results,
                                                reflection, tasks)
    /\ pc' = "invoke_done"
    /\ hist' = [hist EXCEPT !.responded = TRUE]
    /\ UNCHANGED <<tasks, results, reflection, iteration, max_iterations,
                   error_message, ret>>

(* invoke() returned the final state: run_workflow builds its record. *)
RunReturn ==
    /\ pc = "invoke_done"
    /\ ret' = [returned |-> TRUE,
               success |-> (error_message = ""),
               response |-> final_response,
               tasks |-> tasks,
               results |-> results]
    /\ pc' = "returned"
    /\ UNCHANGED <<tasks, results, reflection, final_response, iteration,
                   max_iterations, error_message, steps, hist>>

(* The step budget is spent: invoke() raises GraphRecursionError, and      *)
(* run_workflow's except Exception answers.  With a node due this is the   *)
(* only outcome; with the graph finished on its last allowed step the      *)
(* runtime either returns the final state (RunReturn) or raises.           *)
GraphRecursion ==
    /\ pc \in Nodes \cup {"invoke_done"}
    /\ steps >= RecursionLimit
    /\ pc' = "returned"
    /\ ret' = ExceptionReturn("Unexpected workflow error: Recursion limit reached")
    /\ hist' = [hist EXCEPT !.crashed = TRUE]
    /\ UNCHANGED <<tasks, results, reflection, final_response, iteration,
                   max_iterations, error_message, steps>>

Next ==
    \/ create_workflow
    \/ PlanStep
    \/ ExecuteStep
    \/ ReflectStep
    \/ Decide
    \/ RefineStep
    \/ GenerateResponseStep
    \/ RunReturn
    \/ GraphRecursion

Spec == Init /\ [][Next]_vars

-----------------------------------------------------------------------------
(* The Refinement Engine alone: refine_step from any task list and any     *)
(* instruction sequence.                                                   *)

EngineTasks ==
    {CalcTask(PyInt(1)), SearchTask(PyInt(2)), SearchTask(PyInt(1)),
     CalcTask(PyStr("a"))}

EngineInstructions ==
    { Remove(PyInt(1)), Remove(PyInt(2)), Remove(PyInt(3)), Remove(PyStr("1")),
      Instruction("remove", PyNone, DText),
      Modify(PyInt(1), [description |-> PyStr("3 * 3")]),
      Modify(PyInt(1), [id |-> PyInt(2)]),
      Modify(PyInt(3), [description |-> PyStr("3 * 3")]),
      Instruction("modify", PyInt(1), DText),
      Instruction("modify", PyInt(1), DNone),
      Instruction("modify", PyInt(1), DPairs([description |-> PyStr("3 * 4")])),
      Add([description |-> PyStr("3 * 3"), tool |-> PyStr("calculator")]),
      Add([id |-> PyInt(2), description |-> PyStr("3 * 3"),
           tool |-> PyStr("calculator")]),
      Add([id |-> PyNone, description |-> PyStr("3 * 3"),
           tool |-> PyStr("calculator")]),
      Add([description |-> PyStr("3 * 3")]),
      Instruction("add", PyNone, DOther),
      Instruction("replace", PyInt(1), DText),
      NotAMapping }

InitRefine ==
    /\ tasks \in BoundedSeq(EngineTasks, MaxEngineTasks)
    /\ results = [i \in 1..Len(tasks) |-> ExecuteOne(tasks[i], [a \in 1..StopAfterAttempt |-> Raises])]
    /\ reflection \in
          {EmptyReflection} \cup
          {Verdict(FALSE, FALSE, "feedback", refs) :
              refs \in BoundedSeq(EngineInstructions, MaxRefs)}
    /\ final_response = <<>>
    /\ iteration = 0
    /\ max_iterations = MaxMaxIterations
    /\ error_message = ""
    /\ pc = "refine"
    /\ steps = 0
    /\ ret = NoReturn
    /\ hist = InitHist

SpecRefine == InitRefine /\ [][RefineStep]_vars

-----------------------------------------------------------------------------
(* The decision alone: should_continue_decision from any combination of    *)
(* error flag, iteration, verdict and result statuses.                     *)

DecideResults ==
    BoundedSeq({Result(PyInt(1), "4.0", "completed"),
                Result(PyInt(1), "Error during execution of task", "failed"),
                Result(PyInt(1), "Unexpected error: RetryError",
                       "failed_unexpectedly")}, MaxPlan)

InitDecide ==
    /\ tasks = <<>>
    /\ results \in DecideResults
    /\ reflection \in
          {EmptyReflection} \cup
          {Verdict(s, c, "feedback", refs) :
              s \in BOOLEAN, c \in BOOLEAN,
              refs \in {<<>>, <<Remove(PyInt(1))>>}}
    /\ final_response = <<>>
    /\ iteration \in 0..MaxMaxIterations
    /\ max_iterations \in 1..MaxMaxIterations
    /\ error_message \in {"", PlanStepErrorText("No valid tasks derived from LLM response.")}
    /\ pc = "decide"
    /\ steps = 0
    /\ ret = NoReturn
    /\ hist = InitHist

SpecDecide == InitDecide /\ [][Decide]_vars

-----------------------------------------------------------------------------
(* The Tool Execution Adapter alone: one call of ToolAgent.execute_task on *)
(* a task dict with any of its three fields absent, null, empty or set.    *)

Absent == [ty |-> "absent", n |-> 0, s |-> ""]

(* The dict holding the fields that are not Absent. *)
TaskDict(id, description, tool) ==
    LET all == Task(id, description, tool)
    IN [k \in {x \in DOMAIN all : all[x] # Absent} |-> all[k]]

ToolTasks ==
    { TaskDict(id, description, tool) :
        id \in {PyInt(1), PyStr("a"), Absent},
        description \in {PyStr("2 + 2"), PyStr(""), PyStr("2 x"), PyNone, Absent},
        tool \in {PyStr("calculator"), PyStr("search"), PyStr("translate"),
                  PyStr(""), PyNone, Absent} }

InitTool ==
    /\ tasks \in {<<t>> : t \in ToolTasks}
    /\ results = <<>>
    /\ reflection = EmptyReflection
    /\ final_response = <<>>
    /\ iteration = 0
    /\ max_iterations = 1
    /\ error_message = ""
    /\ pc = "call_tool"
    /\ steps = 0
    /\ ret = NoReturn
    /\ hist = InitHist

(* result = tool_agent.execute_task(task), with nothing around it. *)
ExecuteTaskCall ==
    /\ pc = "call_tool"
    /\ \E caps \in Attempts({Raises, "4.0", "sunny"}) :
          LET r == execute_task(tasks[1], caps)
          IN /\ results' = IF r.raised THEN <<>> ELSE <<r.result>>
             /\ hist' = [hist EXCEPT !.tool_done = TRUE,
                                     !.tool_raised = r.raised,
                                     !.tool_attempts = r.attempts,
                                     !.tool_calls = r.calls,
                                     !.tool_caps = caps]
    /\ pc' = "tool_returned"
    /\ UNCHANGED <<tasks, reflection, final_response, iteration, max_iterations,
                   error_message, steps, ret>>

SpecTool == InitTool /\ [][ExecuteTaskCall]_vars

-----------------------------------------------------------------------------
(* The answers of the planner's model over every description of a small   *)
(* alphabet.                                                               *)

MaxExpr == 2               \* characters in a task description

(* Descriptions over a digit, a space and a letter. *)
Descriptions == {Join(cs) : cs \in BoundedSeq({"2", " ", "x"}, MaxExpr)}

(* The first item of an answer: a calculator task on any description, a    *)
(* search task, and the items validation refuses.                          *)
FirstItems ==
    {RawItem(Task(PyInt(1), PyStr(x), PyStr("calculator"))) : x \in Descriptions}
    \cup {RawItem(Task(PyInt(1), PyStr("x"), PyStr("search"))),
          RawItem(Task(PyInt(1), PyStr("2"), PyStr("translate"))),
          RawItem(Task(PyInt(1), PyNone, PyStr("calculator"))),
          RawItem(TaskDict(PyInt(1), Absent, PyStr("search"))),
          NotADict}

(* An item after the first. *)
LaterItems(i) ==
    {RawItem(Task(PyInt(i), PyStr("2"), PyStr("calculator"))),
     RawItem(Task(PyInt(i), PyStr("x"), PyStr("calculator"))),
     NotADict}

Upstream ==
    UpstreamFailures
    \cup {Answer("list", "", "", "", s) :
            s \in {q \in BoundedSeq(FirstItems \cup UNION {LaterItems(i) : i \in 2..MaxPlan},
                                     MaxPlan) :
                     \A i \in 1..Len(q) :
                        IF i = 1 THEN q[i] \in FirstItems ELSE q[i] \in LaterItems(i)}}

(* plan_step, on the answer of the planner's model. *)
PlanStepUpstream ==
    /\ RunsNode("plan")
    /\ \E u \in Upstream :
        LET p == generate_plan(u)
        IN /\ tasks' = plan_step(error_message, p).tasks
           /\ error_message' = plan_step(error_message, p).error_message
           /\ hist' = [hist EXCEPT !.upstream = u]
    /\ pc' = "execute"
    /\ UNCHANGED <<results, reflection, final_response, iteration,
                   max_iterations, ret>>

(* Every way into the task list, up to the round's execution: a plan, or a *)
(* refinement of a list holding a calculator task or a search task.        *)
IntakeTasks ==
    {<<Task(PyInt(1), PyStr("2"), PyStr("calculator"))>>,
     <<Task(PyInt(1), PyStr("x2"), PyStr("search"))>>}

IntakeInstructions ==
    {Add([description |-> PyStr(x), tool |-> PyStr("calculator")]) :
        x \in Descriptions}
    \cup {Modify(PyInt(1), [description |-> PyStr(x)]) : x \in Descriptions}
    \cup {Modify(PyInt(1), [tool |-> PyStr("calculator")]),
          Modify(PyInt(1), [note |-> PyStr("n")]),
          Add([description |-> PyStr("2")])}

InitIntake ==
    /\ final_response = <<>>
    /\ iteration = 0
    /\ max_iterations = 1
    /\ error_message = ""
    /\ ret = NoReturn
    /\ hist = InitHist
    /\ \/ /\ pc = "plan"
          /\ steps = 0
          /\ tasks = <<>>
          /\ results = <<>>
          /\ reflection = EmptyReflection
       \/ /\ pc = "refine"
          /\ steps = 3
          /\ tasks \in IntakeTasks
          /\ results = [i \in 1..Len(tasks) |->
                          ExecuteOne(tasks[i], [a \in 1..StopAfterAttempt |-> Raises])]
          /\ \E r \in IntakeInstructions :
                reflection = Verdict(FALSE, FALSE, "retry", <<r>>)

NextIntake ==
    \/ PlanStepUpstream
    \/ RefineStep
    \/ ExecuteStep

SpecIntake == InitIntake /\ [][NextIntake]_vars

-----------------------------------------------------------------------------
(* Calls of run_workflow side by side (api/main.py runs them in worker     *)
(* threads).  The workflow state of a call is the dict it builds at lines  *)
(* 274-283 and hands to invoke().  Here the dicts live in a heap: each of  *)
(* the variables tasks to error_message is a function of the dict (its     *)
(* number), the dict a call builds has the call's number, and             *)
(* hist.state_of[r] is the dict call r works on (0 before it has built     *)
(* one).  pc, steps and ret belong to the call.  The steps are closures    *)
(* over the agents the call's create_workflow() has built; refine_step's   *)
(* id counter is a local of the step (line 156), computed from the task    *)
(* list of the dict the step is given.                                     *)

Runs == {1, 2}

MaxConcSteps == 7          \* nodes a run executes while another run is watched

(* One dict for every call, as a module-level initial state would be. *)
ModuleLevelDict(r) == 1

(* WorkflowState(query=query, tasks=[], ...) in call r: a dict that did    *)
(* not exist.                                                              *)
NewDict(r) == r

(* The state dict call r works on, with the call's position. *)
RunState(r) ==
    LET d == hist.state_of[r]
    IN IF d = 0
       THEN [tasks |-> <<>>, results |-> <<>>, reflection |-> EmptyReflection,
             final_response |-> <<>>, iteration |-> 0, max_iterations |-> 0,
             error_message |-> "", pc |-> pc[r], steps |-> steps[r], ret |-> ret[r]]
       ELSE [tasks |-> tasks[d], results |-> results[d],
             reflection |-> reflection[d], final_response |-> final_response[d],
             iteration |-> iteration[d], max_iterations |-> max_iterations[d],
             error_message |-> error_message[d],
             pc |-> pc[r], steps |-> steps[r], ret |-> ret[r]]

(* What the Reflector's model gives a step that asks it: a verdict that    *)
(* ends the run, one that adds a task, one whose instruction is no mapping *)
(* and a Reflector that fails.                                             *)
ConcVerdicts ==
    {RawVerdict(TRUE, TRUE, <<>>),
     RawVerdict(FALSE, FALSE,
        <<Add([description |-> PyStr("3 * 3"), tool |-> PyStr("calculator")])>>),
     RawVerdict(FALSE, FALSE, <<NotAMapping>>),
     [RawVerdict(FALSE, FALSE, <<>>) EXCEPT !.kind = "empty", !.keys = <<>>]}

(* The inputs the step due in st asks for.  plan: the planner's result, a  *)
(* failing planner or a plan of one or of two tasks.  caps: what the       *)
(* capability does on the attempts made for each task; it returns at once, *)
(* raises once and then returns, or raises every time.  raw: the           *)
(* Reflector's answer.                                                     *)
StepInputs(st) ==
    LET plans == {p \in PlannerResults :
                    \/ p.msg = "Empty response from LLM"
                    \/ ~p.raised /\ Len(p.tasks) \in 1..2}
        attempts == {[i \in 1..StopAfterAttempt |->
                         IF i <= k THEN Raises ELSE "4.0"] :
                        k \in {0, 1, StopAfterAttempt}}
    IN [plan : IF st.pc = "plan" THEN plans ELSE {CHOOSE p \in plans : TRUE},
        caps : IF st.pc = "execute"
               THEN [1..Len(st.tasks) -> attempts] ELSE {<<>>},
        raw : IF st.pc = "reflect" THEN ConcVerdicts
              ELSE {RawVerdict(TRUE, TRUE, <<>>)}]

CanStep(st) ==
    \/ st.pc \in Nodes /\ st.steps < MaxConcSteps
    \/ st.pc \in {"decide", "invoke_done"}

(* One step of a run from the state st: the node or edge st.pc names.      *)
StepRun(st, in) ==
    CASE st.pc = "plan" ->
            LET p == plan_step(st.error_message, in.plan)
            IN [st EXCEPT !.tasks = p.tasks, !.error_message = p.error_message,
                          !.pc = "execute", !.steps = @ + 1]
      [] st.pc = "execute" ->
            [st EXCEPT
                !.results = IF st.tasks = <<>> THEN <<>>
                            ELSE ExecuteTasks(st.tasks, in.caps),
                !.error_message = IF st.tasks = <<>> /\ @ = "" THEN NoTasksText ELSE @,
                !.pc = "reflect", !.steps = @ + 1]
      [] st.pc = "reflect" ->
            LET r == reflect_step(TRUE, st.results, st.error_message, st.tasks, in.raw)
            IN [st EXCEPT !.reflection = r.reflection,
                          !.error_message = r.error_message,
                          !.pc = "decide", !.steps = @ + 1]
      [] st.pc = "decide" ->
            [st EXCEPT !.pc =
                IF should_continue_decision(st.error_message, st.iteration,
                       st.max_iterations, st.reflection, st.results) = "refine_tasks"
                THEN "refine" ELSE "generate_response"]
      [] st.pc = "refine" ->
            LET r == refine_step(st.tasks, st.reflection)
            IN IF r.raised
               THEN [st EXCEPT !.pc = "returned", !.steps = @ + 1,
                       !.tasks = r.tasks,
                       !.ret = ExceptionReturn("Unexpected workflow error: 'str' object has no attribute 'get'")]
               ELSE [st EXCEPT
                       !.tasks = r.tasks,
                       !.results = IF r.cleared THEN <<>> ELSE @,
                       !.reflection = IF r.cleared THEN EmptyReflection ELSE @,
                       !.error_message = IF r.cleared THEN "" ELSE @,
                       !.pc = "execute", !.steps = @ + 1]
      [] st.pc = "generate_response" ->
            [st EXCEPT
                !.final_response = generate_response_step(st.error_message,
                                       st.results, st.reflection, st.tasks),
                !.pc = "invoke_done", !.steps = @ + 1]
      [] OTHER ->
            [st EXCEPT
                !.ret = [returned |-> TRUE,
                         success |-> (st.error_message = ""),
                         response |-> st.final_response,
                         tasks |-> st.tasks,
                         results |-> st.results],
                !.pc = "returned"]

InitConcurrent ==
    /\ tasks = [d \in Runs |-> <<>>]
    /\ results = [d \in Runs |-> <<>>]
    /\ reflection = [d \in Runs |-> EmptyReflection]
    /\ final_response = [d \in Runs |-> <<>>]
    /\ iteration = [d \in Runs |-> 0]
    /\ max_iterations = [d \in Runs |-> 0]
    /\ error_message = [d \in Runs |-> ""]
    /\ pc = [r \in Runs |-> "create"]
    /\ steps = [r \in Runs |-> 0]
    /\ ret = [r \in Runs |-> NoReturn]
    /\ hist = [state_of |-> [r \in Runs |-> 0]]

(* Call r enters run_workflow: create_workflow() builds its graph and its  *)
(* agents or raises, and initial_state is built (lines 272-283), with the  *)
(* largest max_iterations of the model.                                    *)
EnterRunWorkflow(r) ==
    /\ pc[r] = "create"
    /\ \/ /\ pc' = [pc EXCEPT ![r] = "raised"]
          /\ UNCHANGED <<tasks, results, reflection, final_response, iteration,
                         max_iterations, error_message, hist>>
       \/ LET d == NewDict(r)
              m == MaxMaxIterations
          IN   /\ tasks' = [tasks EXCEPT ![d] = <<>>]
               /\ results' = [results EXCEPT ![d] = <<>>]
               /\ reflection' = [reflection EXCEPT ![d] = EmptyReflection]
               /\ final_response' = [final_response EXCEPT ![d] = <<>>]
               /\ iteration' = [iteration EXCEPT ![d] = 0]
               /\ max_iterations' = [max_iterations EXCEPT ![d] = m]
               /\ error_message' = [error_message EXCEPT ![d] = ""]
               /\ hist' = [hist EXCEPT !.state_of[r] = d]
               /\ pc' = [pc EXCEPT ![r] = "plan"]
    /\ UNCHANGED <<steps, ret>>

(* Call r takes its next step, on the dict it works on, while the other    *)
(* call is wherever it is.                                                 *)
RunStep(r) ==
    /\ hist.state_of[r] # 0
    /\ CanStep(RunState(r))
    /\ \E in \in StepInputs(RunState(r)) :
        LET n == StepRun(RunState(r), in)
            d == hist.state_of[r]
        IN /\ tasks' = [tasks EXCEPT ![d] = n.tasks]
           /\ results' = [results EXCEPT ![d] = n.results]
           /\ reflection' = [reflection EXCEPT ![d] = n.reflection]
           /\ final_response' = [final_response EXCEPT ![d] = n.final_response]
           /\ iteration' = [iteration EXCEPT ![d] = n.iteration]
           /\ max_iterations' = [max_iterations EXCEPT ![d] = n.max_iterations]
           /\ error_message' = [error_message EXCEPT ![d] = n.error_message]
           /\ pc' = [pc EXCEPT ![r] = n.pc]
           /\ steps' = [steps EXCEPT ![r] = n.steps]
           /\ ret' = [ret EXCEPT ![r] = n.ret]
    /\ UNCHANGED hist

NextConcurrent ==
    \/ \E r \in Runs : EnterRunWorkflow(r)
    \/ \E r \in Runs : RunStep(r)

SpecConcurrent == InitConcurrent /\ [][NextConcurrent]_vars

-----------------------------------------------------------------------------
(* TaskQueue (task_manager.py).  The queue holds references to the dicts   *)
(* its caller passes in, so the dicts live in a heap (hist.objects, by     *)
(* reference) and self.tasks (the variable tasks) is a sequence of         *)
(* references; completed_tasks and failed_tasks are dicts in insertion     *)
(* order, as sequences of entries [key, task, info].                       *)

MaxQueueObjects == 3       \* dicts the caller holds
MaxQueueLen == 2           \* entries of the queue when the caller adds one
MaxRetries == 2            \* retry_count of a task

QueueObjects == 1..MaxQueueObjects

(* The caller's dicts: the first two carry the same id. *)
IdOf(o) == PyInt((o + 1) \div 2)
QueueIds == {IdOf(o) : o \in QueueObjects} \cup {PyInt(MaxQueueObjects + 1)}

(* d[k] = v on a dict kept as a sequence of entries. *)
DictSet(d, k, task, info) ==
    IF \E i \in 1..Len(d) : d[i].key = k
    THEN [i \in 1..Len(d) |->
             IF d[i].key = k THEN [key |-> k, task |-> task, info |-> info] ELSE d[i]]
    ELSE Append(d, [key |-> k, task |-> task, info |-> info])

DictHas(d, k) == \E i \in 1..Len(d) : d[i].key = k
DictGet(d, k) == d[CHOOSE i \in 1..Len(d) : d[i].key = k]
(* A del that leaves the entry in the dict. *)
DictDelKeeping(d, k) == d

DictDel(d, k) == SelectSeq(d, LAMBDA e : e.key # k)

(* The position of the first pending task whose id is task_id, 0 if none. *)
FirstById(q, objects, task_id) ==
    LET hits == {i \in 1..Len(q) : objects[q[i]]["id"] = task_id}
    IN IF hits = {} THEN 0 ELSE CHOOSE i \in hits : \A k \in hits : i <= k

(* deque.remove(x): the queue without its first entry equal to x. *)
DequeRemove(q, objects, x) ==
    LET hits == {i \in 1..Len(q) : objects[q[i]] = objects[x]}
        j == CHOOSE i \in hits : \A k \in hits : i <= k
    IN SubSeq(q, 1, j - 1) \o SubSeq(q, j + 1, Len(q))

(* get_all_tasks(), by reference. *)
get_all_tasks(q, completed_tasks, failed_tasks) ==
    [pending |-> q,
     completed |-> [i \in 1..Len(completed_tasks) |->
                       [task |-> completed_tasks[i].task,
                        result |-> completed_tasks[i].info]],
     failed |-> [i \in 1..Len(failed_tasks) |->
                    [task |-> failed_tasks[i].task,
                     error |-> failed_tasks[i].info]]]

NoOp == [name |-> "", task_id |-> PyNone, ref |-> 0, before |-> <<>>]

InitQueue ==
    /\ tasks = <<>>
    /\ results = <<>>
    /\ reflection = EmptyReflection
    /\ final_response = <<>>
    /\ iteration = 0
    /\ max_iterations = 1
    /\ error_message = ""
    /\ pc = "queue"
    /\ steps = 0
    /\ ret = NoReturn
    /\ hist = [objects |-> [o \in QueueObjects |->
                              Task(IdOf(o), PyStr("Test task"), PyStr("calculator"))],
               completed_tasks |-> <<>>,
               failed_tasks |-> <<>>,
               op |-> NoOp]

QueueUnchanged ==
    UNCHANGED <<results, reflection, final_response, iteration, max_iterations,
                error_message, pc, steps, ret>>

add_task(o) ==
    /\ pc = "queue"
    /\ Len(tasks) < MaxQueueLen
    /\ tasks' = Append(tasks, o)
    /\ hist' = [hist EXCEPT
                   !.objects[o] = Update(@, [status |-> PyStr("pending")]),
                   !.op = [name |-> "add_task", task_id |-> hist.objects[o]["id"],
                           ref |-> o, before |-> tasks]]
    /\ QueueUnchanged

mark_task_completed(task_id, result) ==
    /\ pc = "queue"
    /\ LET i == FirstById(tasks, hist.objects, task_id)
       IN IF i = 0
          THEN /\ hist' = [hist EXCEPT !.op = [name |-> "mark_task_completed",
                               task_id |-> task_id, ref |-> 0, before |-> tasks]]
               /\ UNCHANGED tasks
          ELSE LET task == tasks[i]
                   objects == [hist.objects EXCEPT
                                  ![task] = Update(@, [status |-> PyStr("completed")])]
               IN /\ tasks' = DequeRemove(tasks, objects, task)
                  /\ hist' = [hist EXCEPT
                        !.objects = objects,
                        !.completed_tasks = DictSet(@, task_id, task, result),
                        !.op = [name |-> "mark_task_completed", task_id |-> task_id,
                                ref |-> task, before |-> tasks]]
    /\ QueueUnchanged

mark_task_failed(task_id, error) ==
    /\ pc = "queue"
    /\ LET i == FirstById(tasks, hist.objects, task_id)
       IN IF i = 0
          THEN /\ hist' = [hist EXCEPT !.op = [name |-> "mark_task_failed",
                               task_id |-> task_id, ref |-> 0, before |-> tasks]]
               /\ UNCHANGED tasks
          ELSE LET task == tasks[i]
                   objects == [hist.objects EXCEPT
                                  ![task] = Update(@, [status |-> PyStr("failed")])]
               IN /\ tasks' = DequeRemove(tasks, objects, task)
                  /\ hist' = [hist EXCEPT
                        !.objects = objects,
                        !.failed_tasks = DictSet(@, task_id, task, error),
                        !.op = [name |-> "mark_task_failed", task_id |-> task_id,
                                ref |-> task, before |-> tasks]]
    /\ QueueUnchanged

(* get_next_task(): tasks[0], or None (0 here) on an empty queue. *)
get_next_task ==
    /\ pc = "queue"
    /\ hist' = [hist EXCEPT !.op = [name |-> "get_next_task", task_id |-> PyNone,
                      ref |-> IF Len(tasks) = 0 THEN 0 ELSE tasks[1],
                      before |-> tasks]]
    /\ UNCHANGED tasks
    /\ QueueUnchanged

(* retry_task putting the task back at the head of the queue. *)
RetryTaskAtHead(task_id) ==
    /\ pc = "queue"
    /\ DictHas(hist.failed_tasks, task_id)
    /\ LET task == DictGet(hist.failed_tasks, task_id).task
           retry_count == Get(hist.objects[task], "retry_count").n
       IN /\ retry_count < MaxRetries
          /\ tasks' = <<task>> \o tasks
          /\ hist' = [hist EXCEPT
                !.objects[task] = Update(@, [status |-> PyStr("pending"),
                                             retry_count |-> PyInt(retry_count + 1)]),
                !.failed_tasks = DictDel(@, task_id),
                !.op = [name |-> "retry_task", task_id |-> task_id,
                        ref |-> task, before |-> tasks]]
    /\ QueueUnchanged

(* retry_task(task_id), whatever the length of the queue.  retry_count     *)
(* grows without limit in the code: the guard on it keeps the counter      *)
(* within MaxRetries.                                                      *)
retry_task(task_id) ==
    /\ pc = "queue"
    /\ IF ~DictHas(hist.failed_tasks, task_id)
       THEN /\ hist' = [hist EXCEPT !.op = [name |-> "retry_task",
                            task_id |-> task_id, ref |-> 0, before |-> tasks]]
            /\ UNCHANGED tasks
       ELSE LET task == DictGet(hist.failed_tasks, task_id).task
                retry_count == Get(hist.objects[task], "retry_count").n
            IN /\ retry_count < MaxRetries
               /\ tasks' = Append(tasks, task)
               /\ hist' = [hist EXCEPT
                     !.objects[task] =
                         Update(@, [status |-> PyStr("pending"),
                                    retry_count |-> PyInt(retry_count + 1)]),
                     !.failed_tasks = DictDel(@, task_id),
                     !.op = [name |-> "retry_task", task_id |-> task_id,
                             ref |-> task, before |-> tasks]]
    /\ QueueUnchanged

NextQueue ==
    \/ \E o \in QueueObjects : add_task(o)
    \/ \E task_id \in QueueIds : mark_task_completed(task_id, "result")
    \/ \E task_id \in QueueIds : mark_task_failed(task_id, "error")
    \/ \E task_id \in QueueIds : retry_task(task_id)
    \/ get_next_task

SpecQueue == InitQueue /\ [][NextQueue]_vars

(* The queue under callers that never add a task whose id the queue knows: *)
(* an id is known when a pending task carries it or an outcome is recorded *)
(* under it.                                                               *)
KnownIds ==
    {hist.objects[tasks[i]]["id"] : i \in 1..Len(tasks)}
    \cup {hist.completed_tasks[i].key : i \in 1..Len(hist.completed_tasks)}
    \cup {hist.failed_tasks[i].key : i \in 1..Len(hist.failed_tasks)}

NextQueueFresh ==
    \/ \E o \in QueueObjects : hist.objects[o]["id"] \notin KnownIds /\ add_task(o)
    \/ \E task_id \in QueueIds : mark_task_completed(task_id, "result")
    \/ \E task_id \in QueueIds : mark_task_failed(task_id, "error")
    \/ \E task_id \in QueueIds : retry_task(task_id)
    \/ get_next_task

SpecQueueFresh == InitQueue /\ [][NextQueueFresh]_vars

-----------------------------------------------------------------------------
(* The Response Synthesizer alone: generate_response_step on any state a   *)
(* run can hand it and on the states its fallback branches are written     *)
(* for.  A completed result carries the length of its payload.             *)

(* Payloads by their characters: three characters, the same with a blank  *)
(* at the end, none, blanks only, ResponseLimit of them, one more, and one *)
(* more with a blank as the last one shown.                                *)
PayloadShapes ==
    {[len |-> 3, blank |-> {}], [len |-> 3, blank |-> {3}],
     [len |-> 0, blank |-> {}], [len |-> 2, blank |-> {1, 2}],
     [len |-> ResponseLimit, blank |-> {}],
     [len |-> ResponseLimit + 1, blank |-> {}],
     [len |-> ResponseLimit + 1, blank |-> {ResponseLimit}]}

RespondResults ==
    {[task_id |-> PyInt(id), result |-> "payload", status |-> "completed",
      len |-> p.len, blank |-> p.blank] : id \in 1..2, p \in PayloadShapes}
    \cup {Result(PyInt(id), "", "failed") : id \in 1..2}
    \cup {Result(PyInt(id), "Error during execution of task", "failed") : id \in 1..2}
    \cup {Result(PyInt(id), "Unexpected error: RetryError", "failed_unexpectedly") :
            id \in 1..2}

InitRespond ==
    /\ tasks \in {<<>>, <<CalcTask(PyInt(1)), SearchTask(PyInt(2))>>}
    /\ results \in BoundedSeq(RespondResults, MaxTasks)
    /\ reflection \in {EmptyReflection,
                        Verdict(FALSE, FALSE, "feedback", <<>>),
                        Verdict(FALSE, FALSE, "  padded  ", <<>>),
                        Verdict(FALSE, FALSE, "  ", <<>>),
                        Verdict(TRUE, TRUE, "", <<>>)}
    /\ final_response = <<>>
    /\ iteration = 0
    /\ max_iterations = 1
    /\ error_message \in {"", NoTasksText}
    /\ pc = "generate_response"
    /\ steps = 3
    /\ ret = NoReturn
    /\ hist = InitHist

SpecRespond == InitRespond /\ [][GenerateResponseStep]_vars

-----------------------------------------------------------------------------
(* The registry of asynchronous runs (api/main.py): active_tasks, the      *)
(* request handlers that create, read and delete its entries, and the      *)
(* background function process_query_task, which runs in a worker thread.  *)
(* Each of its status writes is a lookup active_tasks[task_id] followed by *)
(* a store into the record found; handlers can run between the two.        *)
(* hist.active_tasks is the registry, hist.bg the position of each id's    *)
(* background function, hist.deleted the ids delete_task removed and       *)
(* hist.reply the last handler's answer.                                   *)

MaxRuns == 2               \* ids process_query hands out

RunIds == 1..MaxRuns

AbsentEntry == [present |-> FALSE, status |-> "", result |-> FALSE, error |-> FALSE]

(* {"status": "pending", "created_at": ..., "query": ...} *)
NewEntry == [present |-> TRUE, status |-> "pending", result |-> FALSE, error |-> FALSE]

(* A store that puts the record back under its id when it is gone. *)
UpdateEntryCreating(reg, id, fields) ==
    [reg EXCEPT ![id] = Update(IF @.present THEN @ ELSE NewEntry, fields)]

(* A store of the status alone. *)
UpdateEntryStatusOnly(reg, id, fields) ==
    IF reg[id].present THEN [reg EXCEPT ![id].status = fields.status] ELSE reg

(* record.update(fields) / record["status"] = ..., on the record the       *)
(* lookup returned: it is the registry's entry as long as the id has not   *)
(* been deleted, and a record no longer in the registry afterwards.        *)
UpdateEntry(reg, id, fields) ==
    IF reg[id].present THEN [reg EXCEPT ![id] = Update(@, fields)] ELSE reg

(* Positions of process_query_task at which it holds a record it looked up. *)
Holding == {"start_held", "ok_held", "err_held"}

NoReply == [op |-> "", id |-> 0, status |-> ""]

InitRegistry ==
    /\ tasks = <<>>
    /\ results = <<>>
    /\ reflection = EmptyReflection
    /\ final_response = <<>>
    /\ iteration = 0
    /\ max_iterations = 1
    /\ error_message = ""
    /\ pc = "registry"
    /\ steps = 0
    /\ ret = NoReturn
    /\ hist = [active_tasks |-> [id \in RunIds |-> AbsentEntry],
               bg |-> [id \in RunIds |-> "none"],
               deleted |-> [id \in RunIds |-> FALSE],
               reply |-> NoReply]

(* POST /query: a new id; with async_execution an entry and a background   *)
(* task, otherwise the run itself, which answers or raises.                *)
process_query(id, async_execution) ==
    /\ pc = "registry"
    /\ hist.bg[id] = "none"
    /\ \A k \in RunIds : k < id => hist.bg[k] # "none"
    /\ IF async_execution
       THEN hist' = [hist EXCEPT
                        !.active_tasks[id] = NewEntry,
                        !.bg[id] = "scheduled",
                        !.reply = [op |-> "process_query", id |-> id,
                                   status |-> "pending"]]
       ELSE \E outcome \in {"response", "error"} :
               hist' = [hist EXCEPT
                           !.bg[id] = "sync",
                           !.reply = [op |-> "process_query", id |-> id,
                                      status |-> outcome]]
    /\ UNCHANGED tasks /\ QueueUnchanged

(* active_tasks[task_id]["status"] = "running": the lookup. *)
BgLookupStart(id) ==
    /\ pc = "registry"
    /\ hist.bg[id] = "scheduled"
    /\ hist' = [hist EXCEPT !.bg[id] = IF hist.active_tasks[id].present
                                       THEN "start_held" ELSE "err"]
    /\ UNCHANGED tasks /\ QueueUnchanged

(* ... and the store. *)
BgStoreRunning(id) ==
    /\ pc = "registry"
    /\ hist.bg[id] = "start_held"
    /\ hist' = [hist EXCEPT
                   !.active_tasks = UpdateEntry(@, id, [status |-> "running"]),
                   !.bg[id] = "running"]
    /\ UNCHANGED tasks /\ QueueUnchanged

(* run_workflow and WorkflowResponse(...): a response, or an exception. *)
BgRunWorkflow(id) ==
    /\ pc = "registry"
    /\ hist.bg[id] = "running"
    /\ \E raised \in BOOLEAN :
          hist' = [hist EXCEPT !.bg[id] = IF raised THEN "err" ELSE "ok"]
    /\ UNCHANGED tasks /\ QueueUnchanged

(* active_tasks[task_id].update({"status": "completed", ...}): the lookup, *)
(* whose KeyError is caught by the function's except clause.               *)
BgLookupCompleted(id) ==
    /\ pc = "registry"
    /\ hist.bg[id] = "ok"
    /\ hist' = [hist EXCEPT !.bg[id] = IF hist.active_tasks[id].present
                                       THEN "ok_held" ELSE "err"]
    /\ UNCHANGED tasks /\ QueueUnchanged

BgUpdateCompleted(id) ==
    /\ pc = "registry"
    /\ hist.bg[id] = "ok_held"
    /\ hist' = [hist EXCEPT
                   !.active_tasks = UpdateEntry(@, id, [status |-> "completed",
                                                        result |-> TRUE]),
                   !.bg[id] = "done"]
    /\ UNCHANGED tasks /\ QueueUnchanged

(* The except clause: active_tasks[task_id].update({"status": "failed",    *)
(* ...}), whose KeyError leaves the function, then raise AsyncTaskError.   *)
BgLookupFailed(id) ==
    /\ pc = "registry"
    /\ hist.bg[id] = "err"
    /\ hist' = [hist EXCEPT !.bg[id] = IF hist.active_tasks[id].present
                                       THEN "err_held" ELSE "raised_KeyError"]
    /\ UNCHANGED tasks /\ QueueUnchanged

BgUpdateFailed(id) ==
    /\ pc = "registry"
    /\ hist.bg[id] = "err_held"
    /\ hist' = [hist EXCEPT
                   !.active_tasks = UpdateEntry(@, id, [status |-> "failed",
                                                        error |-> TRUE]),
                   !.bg[id] = "raised_AsyncTaskError"]
    /\ UNCHANGED tasks /\ QueueUnchanged

(* GET /tasks/{task_id} *)
get_task_status(id) ==
    /\ pc = "registry"
    /\ hist' = [hist EXCEPT !.reply =
                   [op |-> "get_task_status", id |-> id,
                    status |-> IF hist.active_tasks[id].present
                               THEN hist.active_tasks[id].status
                               ELSE "TaskNotFoundError"]]
    /\ UNCHANGED tasks /\ QueueUnchanged

(* DELETE /tasks/{task_id} *)
delete_task(id) ==
    /\ pc = "registry"
    /\ IF hist.active_tasks[id].present
       THEN hist' = [hist EXCEPT
                        !.active_tasks[id] = AbsentEntry,
                        !.deleted[id] = TRUE,
                        !.reply = [op |-> "delete_task", id |-> id,
                                   status |-> "deleted"]]
       ELSE hist' = [hist EXCEPT
                        !.reply = [op |-> "delete_task", id |-> id,
                                   status |-> "TaskNotFoundError"]]
    /\ UNCHANGED tasks /\ QueueUnchanged

process_query_task(id) ==
    \/ BgLookupStart(id)
    \/ BgStoreRunning(id)
    \/ BgRunWorkflow(id)
    \/ BgLookupCompleted(id)
    \/ BgUpdateCompleted(id)
    \/ BgLookupFailed(id)
    \/ BgUpdateFailed(id)

NextRegistry ==
    \/ \E id \in RunIds, async_execution \in BOOLEAN : process_query(id, async_execution)
    \/ \E id \in RunIds : process_query_task(id)
    \/ \E id \in RunIds : get_task_status(id)
    \/ \E id \in RunIds : delete_task(id)

SpecRegistry == InitRegistry /\ [][NextRegistry]_vars

-----------------------------------------------------------------------------
(* Properties.                                                             *)

ReflectionFailureTexts ==
    {ReflectionFailureText(evaluate_results(raw).msg) :
        raw \in {x \in ReflectorOutputs : evaluate_results(x).raised}}

PlanningFailureTexts ==
    {PlanStepErrorText(p.msg) : p \in {q \in PlannerResults : q.raised}}

NoValidTasksText ==
    PlanStepErrorText("No valid tasks derived from LLM response.")

(* C1: in every run the number of refine transitions taken never exceeds   *)
(* max_iterations.                                                         *)
C1_RefinesWithinMaxIterations == hist.refines <= max_iterations

(* C2: every run ends by way of the terminal respond step, with a final    *)
(* response produced by it: a run that has returned went through respond   *)
(* and no exception left the graph.                                        *)
C2_EveryRunResponds == ret.returned => (hist.responded /\ ~hist.crashed)

(* C3: the increment of the iteration counter is kept for the next round:  *)
(* at the k-th decision of a run the value compared against max_iterations *)
(* is k.                                                                   *)
C3_ComparedIsDecisionNumber ==
    hist.decisions > 0 => hist.compared = hist.decisions

(* C4: the decision is one of refine and respond, and it is the first      *)
(* matching rule of: (1) fatal error -> respond; (2) incremented iteration *)
(* >= max_iterations -> respond; (3) verdict complete and success ->       *)
(* respond; (4) every result completed and verdict not complete ->         *)
(* respond; (5) at least one refinement and incremented iteration <        *)
(* max_iterations -> refine; (6) otherwise respond.                        *)
C4_Chain ==
    LET it == iteration + 1
        everyCompleted == \A i \in DOMAIN results : results[i].status = "completed"
    IN CASE error_message # "" -> "respond"
         [] error_message = "" /\ it >= max_iterations -> "respond"
         [] error_message = "" /\ it < max_iterations
              /\ reflection.complete /\ reflection.success -> "respond"
         [] error_message = "" /\ it < max_iterations
              /\ ~(reflection.complete /\ reflection.success)
              /\ everyCompleted /\ ~reflection.complete -> "respond"
         [] error_message = "" /\ it < max_iterations
              /\ ~(reflection.complete /\ reflection.success)
              /\ ~(everyCompleted /\ ~reflection.complete)
              /\ Len(reflection.refinements) >= 1 -> "refine"
         [] OTHER -> "respond"

C4_DecisionFollowsChain ==
    hist.decisions > 0 =>
        /\ hist.route \in {"refine_tasks", "end_workflow"}
        /\ (hist.route = "refine_tasks") <=> (C4_Chain = "refine")
        /\ (pc = "refine") <=> (C4_Chain = "refine")
        /\ (pc = "generate_response") <=> (C4_Chain = "respond")

C4_Witness ==
    /\ hist.decisions = 1
    /\ pc = "refine"
    /\ error_message = ""
    /\ reflection.complete /\ ~reflection.success

(* C5, as claimed: when every result of the round is completed the         *)
(* decision is respond, whatever the verdict holds.                        *)
C5_AllCompletedResponds ==
    (pc \in {"refine", "generate_response"} /\ AllCompleted(results)) =>
        (hist.route = "end_workflow" /\ pc = "generate_response")

(* C5, amended: when every result of the round is completed and the        *)
(* verdict is not "complete without success", the decision is respond,     *)
(* whatever refinements the verdict carries.  (A decision has just been    *)
(* made exactly when pc is refine or generate_response; results and        *)
(* reflection are then the ones it read.)                                  *)
C5_AllCompletedRespondsUnlessCompleteUnsuccessful ==
    (/\ pc \in {"refine", "generate_response"}
     /\ AllCompleted(results)
     /\ ~(reflection.complete /\ ~reflection.success)) =>
        (hist.route = "end_workflow" /\ pc = "generate_response")

C5_Witness ==
    /\ pc = "generate_response"
    /\ results # <<>>
    /\ AllCompleted(results)
    /\ hist.decide_error = ""
    /\ hist.compared < max_iterations
    /\ ~reflection.complete
    /\ reflection.refinements # <<>>

(* C6: when a fatal error message is present at decision time, the next    *)
(* step is respond, never refine; the final response is that message       *)
(* verbatim and the run reports success = false.                           *)
C6_FatalErrorResponds ==
    (hist.decisions > 0 /\ pc # "decide" /\ hist.decide_error # "") =>
        /\ hist.route = "end_workflow"
        /\ pc \in {"generate_response", "invoke_done", "returned"}
        /\ pc \in {"invoke_done", "returned"} =>
              final_response = Text(hist.decide_error)
        /\ ret.returned =>
              (ret.response = Text(hist.decide_error) /\ ret.success = FALSE)

(* C7: at the end of every run, success is true if and only if no fatal    *)
(* error message is present in the workflow state the run ended in.        *)
C7_SuccessIffNoFatalError ==
    ret.returned => (ret.success <=> (error_message = ""))

(* C8: when the Reflector fails in a round, the fatal error is set, the    *)
(* decision goes to respond, the Refinement Engine is not invoked          *)
(* afterwards, the response is the failure text and success is false.      *)
C8_ReflectorFailureEndsRun ==
    hist.reflect_failed =>
        /\ error_message \in ReflectionFailureTexts
        /\ reflection.feedback = error_message
        /\ ~hist.refine_after_fail
        /\ pc \in {"decide", "generate_response", "invoke_done", "returned"}
        /\ pc # "decide" => hist.route = "end_workflow"
        /\ ret.returned =>
              (ret.success = FALSE /\ ret.response = Text(error_message))

(* C9: the Refinement Engine given an empty instruction sequence returns   *)
(* the task list it was given: same tasks, same order, same fields.        *)
C9_EmptyInstructionsIdentity ==
    (hist.refine_ran /\ hist.refine_refs = <<>>) =>
        (tasks = hist.refine_tasks /\ ~hist.crashed /\ pc = "execute")

C9_Witness ==
    /\ hist.refine_ran
    /\ hist.refine_refs = <<>>
    /\ Len(tasks) = 2
    /\ tasks[1] # tasks[2]

(* C10: remove instructions drop every task whose id equals task_id and    *)
(* leave the other tasks and their order as they were; with no task of     *)
(* that id the list is unchanged and nothing is raised.                    *)
C10_IsRemove(r) == r.isdict /\ r.action = "remove" /\ r.task_id # PyNone

C10_RemoveDropsMatching ==
    (/\ hist.refine_ran
     /\ hist.refine_refs # <<>>
     /\ \A i \in DOMAIN hist.refine_refs : C10_IsRemove(hist.refine_refs[i])) =>
        LET gone == {hist.refine_refs[i].task_id : i \in DOMAIN hist.refine_refs}
            hit == {i \in DOMAIN hist.refine_tasks :
                        hist.refine_tasks[i]["id"] \in gone}
        IN /\ tasks = SelectSeq(hist.refine_tasks, LAMBDA t : t["id"] \notin gone)
           /\ hit = {} => tasks = hist.refine_tasks
           /\ ~hist.crashed
           /\ pc = "execute"

C10_Witness ==
    /\ hist.refine_ran
    /\ hist.refine_refs = <<Remove(PyInt(1))>>
    /\ Len(hist.refine_tasks) = 2
    /\ hist.refine_tasks[1]["id"] = PyInt(1)
    /\ hist.refine_tasks[2]["id"] = PyInt(1)
    /\ tasks = <<>>

(* C11: an add whose details omit id, or give a null id, is assigned an id  *)
(* strictly greater than every integer id in the task list at the moment   *)
(* the add is applied, ids inserted earlier in the same round included.    *)
C11_FreshIdAboveEveryId ==
    hist.refine_ran =>
        \A i \in DOMAIN hist.refine_given :
            \A k \in hist.refine_given[i].present : hist.refine_given[i].id > k

(* C12: two add instructions with omitted ids applied in the same round    *)
(* receive two different ids.                                              *)
C12_IsFreshAdd(r) ==
    /\ r.isdict
    /\ r.action = "add"
    /\ r.details.kind = "object"
    /\ ("id" \notin DOMAIN r.details.d \/ r.details.d["id"] = PyNone)
    /\ {"description", "tool"} \subseteq DOMAIN r.details.d

C12_FreshIdsDiffer ==
    hist.refine_ran =>
        LET given == hist.refine_given
            refs == hist.refine_refs
            n == Len(hist.refine_tasks)
        IN /\ \A i, j \in DOMAIN given : i # j => given[i].id # given[j].id
           /\ (refs # <<>> /\ \A i \in DOMAIN refs : C12_IsFreshAdd(refs[i])) =>
                 /\ Len(tasks) = n + Len(refs)
                 /\ Len(given) = Len(refs)
                 /\ \A i \in DOMAIN refs : tasks[n + i]["id"] = PyInt(given[i].id)
                 /\ \A i, j \in (n + 1)..Len(tasks) :
                       i # j => tasks[i]["id"] # tasks[j]["id"]

C12_Witness ==
    /\ hist.refine_ran
    /\ Len(hist.refine_refs) = 2
    /\ \A i \in DOMAIN hist.refine_refs : C12_IsFreshAdd(hist.refine_refs[i])
    /\ Len(hist.refine_tasks) = 1
    /\ Len(tasks) = 3
    /\ tasks[2]["id"] # tasks[3]["id"]

(* C13: the ids of the tasks in the current task list are pairwise         *)
(* distinct at every point of a run: a refinement round given a list with  *)
(* distinct ids leaves a list with distinct ids.                           *)
C13_Distinct(ts) ==
    \A i, j \in 1..Len(ts) : i # j => Get(ts[i], "id") # Get(ts[j], "id")

C13_IdsPairwiseDistinct ==
    (hist.refine_ran /\ ~hist.crashed /\ C13_Distinct(hist.refine_tasks)) =>
        C13_Distinct(tasks)

(* C14: every task handed to the Tool Execution Adapter, in the first      *)
(* round and in every round after a refinement, has id, description and    *)
(* tool of the stated types, and its tool is search or calculator.         *)
C14_WellFormed(t) ==
    /\ {"id", "description", "tool"} \subseteq DOMAIN t
    /\ t["id"].ty \in {"int", "str"}
    /\ t["description"].ty = "str"
    /\ t["tool"].ty = "str"
    /\ t["tool"].s \in {"search", "calculator"}

C14_TasksHandedAreWellFormed ==
    (pc = "reflect" /\ results # <<>>) =>
        \A i \in 1..Len(tasks) : C14_WellFormed(tasks[i])

(* C15: after every refine transition, before the next execute step, the   *)
(* result list is empty, the reflection verdict is empty and the fatal     *)
(* error message is cleared.                                               *)
C15_RefineClearsRound ==
    (hist.refines > 0 /\ pc = "execute") =>
        /\ results = <<>>
        /\ reflection = EmptyReflection
        /\ error_message = ""

C15_Witness ==
    /\ hist.refines > 0
    /\ pc = "execute"
    /\ hist.refine_refs # <<>>
    /\ hist.refine_tasks # <<>>
    /\ results = <<>>
    /\ ~reflection.present

(* C16: a modify instruction merges the fields of its details into the     *)
(* first task whose id equals task_id, overwriting same-named fields and   *)
(* leaving that task's other fields and all other tasks as they were; with *)
(* no task of that id the list is unchanged, and no exception escapes.     *)
C16_IsModify(r) == r.isdict /\ r.action = "modify" /\ r.task_id # PyNone

C16_ModifyMergesIntoFirstMatch ==
    (/\ hist.refine_ran
     /\ Len(hist.refine_refs) = 1
     /\ C16_IsModify(hist.refine_refs[1])) =>
        LET r == hist.refine_refs[1]
            old == hist.refine_tasks
            hits == {i \in 1..Len(old) : "id" \in DOMAIN old[i] /\ old[i]["id"] = r.task_id}
        IN /\ ~hist.crashed
           /\ pc = "execute"
           /\ Len(tasks) = Len(old)
           /\ hits = {} => tasks = old
           /\ (hits # {} /\ r.details.kind \notin {"object", "pairs"}) => tasks = old
           /\ (hits # {} /\ r.details.kind \in {"object", "pairs"}) =>
                 LET first == CHOOSE i \in hits : \A j \in hits : i <= j
                     d == r.details.d
                 IN /\ \A i \in 1..Len(old) : i # first => tasks[i] = old[i]
                    /\ DOMAIN tasks[first] = DOMAIN old[first] \cup DOMAIN d
                    /\ \A k \in DOMAIN d : tasks[first][k] = d[k]
                    /\ \A k \in DOMAIN old[first] \ DOMAIN d :
                          tasks[first][k] = old[first][k]

C16_Witness ==
    /\ hist.refine_ran
    /\ Len(hist.refine_refs) = 1
    /\ C16_IsModify(hist.refine_refs[1])
    /\ hist.refine_refs[1].details.kind = "object"
    /\ Len(hist.refine_tasks) = 2
    /\ hist.refine_tasks[1]["id"] = hist.refine_refs[1].task_id
    /\ hist.refine_tasks[2]["id"] = hist.refine_refs[1].task_id
    /\ tasks[1] # hist.refine_tasks[1]
    /\ tasks[2] = hist.refine_tasks[2]

(* C17: ToolAgent.execute_task never lets an exception cross its boundary: *)
(* for every task it returns exactly one Result, and for a task with a     *)
(* missing or unrecognized tool, a null description, or a capability that  *)
(* raises, that Result has status failed.                                  *)
C17_Invalid(t) ==
    \/ "tool" \notin DOMAIN t
    \/ t["tool"] \in {PyNone, PyStr("")}
    \/ t["tool"] \notin {PyStr("search"), PyStr("calculator")}
    \/ "description" \notin DOMAIN t
    \/ t["description"] = PyNone

C17_AdapterNeverRaises ==
    hist.tool_done =>
        /\ ~hist.tool_raised
        /\ Len(results) = 1
        /\ (C17_Invalid(tasks[1]) \/ \A i \in DOMAIN hist.tool_caps :
                                        hist.tool_caps[i] = "raises") =>
              results[1].status = "failed"

(* C18: when the tool is empty or not a registered capability, or the      *)
(* description is null, the adapter produces a failed Result at once: the  *)
(* validation is performed once and never retried.                         *)
C18_ValidationNotRetried ==
    (hist.tool_done /\ C17_Invalid(tasks[1])) =>
        /\ hist.tool_attempts = 1
        /\ hist.tool_calls = 0
        /\ results # <<>> => results[1].status = "failed"
        /\ results # <<>>

(* C19: when the capability call raises, the adapter re-attempts the       *)
(* dispatch, up to 3 attempts in total; a success on a later attempt       *)
(* yields a completed Result, and only after the third failed attempt is a *)
(* failed Result produced.                                                 *)
C19_DispatchRetried ==
    (hist.tool_done /\ ~C17_Invalid(tasks[1]) /\ hist.tool_caps[1] = "raises") =>
        LET ok == {i \in DOMAIN hist.tool_caps : hist.tool_caps[i] # "raises"}
        IN /\ results # <<>>
           /\ ok # {} =>
                 LET first == CHOOSE i \in ok : \A j \in ok : i <= j
                 IN /\ hist.tool_calls = first
                    /\ results[1].status = "completed"
                    /\ results[1].result = hist.tool_caps[first]
           /\ ok = {} =>
                 /\ hist.tool_calls = 3
                 /\ results[1].status = "failed"

(* C20: for a well-formed task whose capability call returns normally,     *)
(* execute_task returns a Result whose task_id is the task's id, whose     *)
(* result is the capability's return value and whose status is completed.  *)
C20_WellFormed(t) ==
    /\ {"id", "description", "tool"} \subseteq DOMAIN t
    /\ t["tool"] \in {PyStr("search"), PyStr("calculator")}
    /\ t["description"].ty = "str"

(* The capability call returns: the search client, or eval, returns, and   *)
(* eval is only asked when the calculator's description is an expression   *)
(* over its character set that is not blank.                               *)
C20_ExpressionChars == {"0", "1", "2", "3", "4", "5", "6", "7", "8", "9",
                        "+", "-", "*", "/", ".", "(", ")", " "}

C20_CallReturns(t, cap) ==
    /\ cap # "raises"
    /\ t["tool"] = PyStr("calculator") =>
          /\ \A k \in 1..Len(t["description"].s) :
                SubSeq(t["description"].s, k, k) \in C20_ExpressionChars
          /\ \E k \in 1..Len(t["description"].s) :
                SubSeq(t["description"].s, k, k) # " "

C20_CompletedResult ==
    (/\ hist.tool_done
     /\ C20_WellFormed(tasks[1])
     /\ C20_CallReturns(tasks[1], hist.tool_caps[1])) =>
        /\ ~hist.tool_raised
        /\ results = <<[task_id |-> tasks[1]["id"],
                        result |-> hist.tool_caps[1],
                        status |-> "completed"]>>
        /\ hist.tool_attempts = 1
        /\ hist.tool_calls = 1

C20_Witness ==
    /\ hist.tool_done
    /\ tasks[1] = Task(PyStr("a"), PyStr("2 + 2"), PyStr("calculator"))
    /\ hist.tool_caps[1] = "4.0"
    /\ results # <<>>
    /\ results[1].task_id = PyStr("a")
    /\ results[1].result = "4.0"

(* C21: in every round with a non-empty task list the execute step records *)
(* exactly one result per task in list order, results[i].task_id being     *)
(* tasks[i].id; a task that fails or raises gets a non-completed result,   *)
(* the remaining tasks are still executed and no fatal error is set.       *)
C21_OneResultPerTask ==
    (pc = "reflect" /\ tasks # <<>>) =>
        /\ Len(results) = Len(tasks)
        /\ \A i \in 1..Len(tasks) :
              /\ results[i].task_id = tasks[i]["id"]
              /\ results[i].status \in {"completed", "failed", "failed_unexpectedly"}
              /\ tasks[i]["tool"] \notin {PyStr("search"), PyStr("calculator")} =>
                    results[i].status # "completed"
        /\ error_message = ""

C21_Witness ==
    /\ pc = "reflect"
    /\ Len(tasks) = 2
    /\ Len(results) = 2
    /\ results[1].status = "failed"
    /\ results[2].status = "completed"
    /\ results[2].task_id = tasks[2]["id"]
    /\ error_message = ""


(* C22: plan generation raises a planning error when the answer holds at   *)
(* least one item and none survives validation; on an answer of zero items *)
(* it returns the empty list without raising, and the empty plan is not    *)
(* turned into a fatal error: the fatal-error field is still empty when    *)
(* the round's execution is over.                                          *)
C22_Survives(item) ==
    /\ item.isdict
    /\ {"id", "description", "tool"} \subseteq DOMAIN item.d
    /\ item.d["id"].ty \in {"int", "str"}
    /\ item.d["description"].ty = "str"
    /\ item.d["tool"] \in {PyStr("search"), PyStr("calculator")}
    /\ item.d["tool"] = PyStr("calculator") =>
          \E k \in 1..Len(item.d["description"].s) :
              SubSeq(item.d["description"].s, k, k) \in AllowedChars \ {" "}

C22_EmptyPlanIsNoError ==
    hist.upstream.kind = "list" =>
        LET items == hist.upstream.items
            none == \A i \in 1..Len(items) : ~C22_Survives(items[i])
        IN /\ (pc = "execute" /\ items # <<>> /\ none) =>
                 (tasks = <<>> /\ error_message = NoValidTasksText)
           /\ (pc = "execute" /\ items = <<>>) =>
                 (tasks = <<>> /\ error_message = "")
           /\ (pc = "reflect" /\ items = <<>>) => error_message = ""

(* C23: every expression the calculator evaluates consists of characters   *)
(* of the set 0-9 + - * / . ( ) and space, whichever way its task came     *)
(* into the list (plan, add, modify); and a planned calculator task whose  *)
(* description holds no character of the set is not in the task list and   *)
(* has no result.                                                          *)
C23_CharSet == {"0", "1", "2", "3", "4", "5", "6", "7", "8", "9",
                "+", "-", "*", "/", ".", "(", ")", " "}

C23_PlannedCalculator(item) ==
    /\ item.isdict
    /\ {"id", "description", "tool"} \subseteq DOMAIN item.d
    /\ item.d["tool"] = PyStr("calculator")
    /\ item.d["description"].ty = "str"

C23_OnlyAllowedCharactersEvaluated ==
    /\ \A e \in hist.evaluated :
          \A k \in 1..Len(e) : SubSeq(e, k, k) \in C23_CharSet
    /\ (hist.upstream.kind = "list" /\ pc \in {"execute", "reflect"}) =>
          \A i \in 1..Len(hist.upstream.items) :
             LET item == hist.upstream.items[i]
             IN (/\ C23_PlannedCalculator(item)
                 /\ \A k \in 1..Len(item.d["description"].s) :
                        SubSeq(item.d["description"].s, k, k) \notin C23_CharSet)
                => /\ \A k \in 1..Len(tasks) : tasks[k]["id"] # item.d["id"]
                   /\ \A k \in 1..Len(results) : results[k].task_id # item.d["id"]

C23_Witness ==
    /\ pc = "reflect"
    /\ hist.refine_ran
    /\ hist.evaluated # {}
    /\ \E i \in 1..Len(tasks) :
          /\ tasks[i]["tool"] = PyStr("calculator")
          /\ tasks[i]["description"].ty = "str"
          /\ \E k \in 1..Len(tasks[i]["description"].s) :
                SubSeq(tasks[i]["description"].s, k, k) = "x"
          /\ results[i].status = "failed"

(* C24: no exception leaves run_workflow; it answers every failure with a  *)
(* record whose success is false and whose tasks and results are those of  *)
(* the last workflow state reached before the failure; a run that ends     *)
(* normally returns the final state's tasks and results.                   *)
C24_ReturnsLastState ==
    /\ pc # "raised"
    /\ ret.returned =>
        /\ ret.tasks = tasks
        /\ ret.results = results
        /\ hist.crashed => ~ret.success

(* C25: a step of one call of run_workflow leaves the workflow state of   *)
(* every other call as it was (task list, result list, iteration counter,  *)
(* fatal-error field and the rest), and takes its own call to a state the  *)
(* same step leads to from that call's own state alone; so the ids a       *)
(* refinement draws from its counter follow from the call's own task list. *)
C25_Entered(st) ==
    /\ st.pc \in {"plan", "raised"}
    /\ st.pc = "plan" => st.max_iterations = MaxMaxIterations
    /\ [st EXCEPT !.pc = "create", !.max_iterations = 0]
          = [tasks |-> <<>>, results |-> <<>>, reflection |-> EmptyReflection,
             final_response |-> <<>>, iteration |-> 0, max_iterations |-> 0,
             error_message |-> "", pc |-> "create", steps |-> 0, ret |-> NoReturn]

C25_RunsShareNoData ==
    [][\A r \in Runs :
         RunState(r)' # RunState(r) =>
            /\ \A o \in Runs \ {r} : RunState(o)' = RunState(o)
            /\ IF pc[r] = "create" THEN C25_Entered(RunState(r)')
               ELSE \E in \in StepInputs(RunState(r)) :
                       RunState(r)' = StepRun(RunState(r), in)]_vars

C25_Witness ==
    /\ pc[1] = "execute" /\ pc[2] = "execute"
    /\ hist.state_of[1] # hist.state_of[2]
    /\ Len(RunState(1).tasks) = 2 /\ Len(RunState(2).tasks) = 3
    /\ RunState(1).tasks[2] = Task(PyInt(2), PyStr("3 * 3"), PyStr("calculator"))
    /\ RunState(2).tasks[3] = Task(PyInt(3), PyStr("3 * 3"), PyStr("calculator"))

(* C26: after add_task the task's status is pending and it is the last     *)
(* entry of the pending queue, the entries before it unchanged; after      *)
(* mark_task_completed(id, result) found a pending task with that id, the  *)
(* task is no longer in the pending queue, its status is completed, it is  *)
(* recorded with the result under completed, and get_all_tasks reports it  *)
(* under completed and neither under pending nor under failed.             *)
C26_Reported(entries, o) == \E i \in 1..Len(entries) : entries[i].task = o

C26_QueueCompletes ==
    LET op == hist.op
        all == get_all_tasks(tasks, hist.completed_tasks, hist.failed_tasks)
    IN /\ op.name = "add_task" =>
             /\ hist.objects[op.ref]["status"] = PyStr("pending")
             /\ tasks = Append(op.before, op.ref)
       /\ (op.name = "mark_task_completed" /\ op.ref # 0) =>
             /\ \A i \in 1..Len(tasks) : tasks[i] # op.ref
             /\ hist.objects[op.ref]["status"] = PyStr("completed")
             /\ \E i \in 1..Len(all.completed) :
                   all.completed[i] = [task |-> op.ref, result |-> "result"]
             /\ \A i \in 1..Len(all.pending) : all.pending[i] # op.ref
             /\ ~C26_Reported(all.failed, op.ref)

(* C27: the instructions of a round take effect one after the other in the *)
(* order given, each on the task list the ones before it left: the list    *)
(* after the round is the fold, in order, of remove (drop every task with  *)
(* the id), modify (merge into the first task with the id) and add (append *)
(* the task given with its id) over the list before it.  So an add of id X *)
(* followed by a remove of X leaves no task X, and a modify of X after a   *)
(* remove of X changes nothing.                                            *)
C27_InScope(r) ==
    /\ r.isdict
    /\ \/ r.action = "remove" /\ r.task_id # PyNone
       \/ /\ r.action = "modify" /\ r.task_id # PyNone
          /\ r.details.kind \in {"object", "pairs"}
       \/ /\ r.action = "add" /\ r.details.kind = "object"
          /\ {"id", "description", "tool"} \subseteq DOMAIN r.details.d
          /\ r.details.d["id"] # PyNone

C27_Effect(ts, r) ==
    CASE r.action = "remove" ->
            SelectSeq(ts, LAMBDA t : Get(t, "id") # r.task_id)
      [] r.action = "modify" ->
            LET hits == {i \in 1..Len(ts) : Get(ts[i], "id") = r.task_id}
            IN [i \in 1..Len(ts) |->
                   IF i \in hits /\ \A k \in hits : i <= k
                   THEN [k \in DOMAIN ts[i] \cup DOMAIN r.details.d |->
                            IF k \in DOMAIN r.details.d THEN r.details.d[k]
                            ELSE ts[i][k]]
                   ELSE ts[i]]
      [] OTHER -> Append(ts, r.details.d)

RECURSIVE C27_Fold(_, _, _)
C27_Fold(ts, refs, i) ==
    IF i > Len(refs) THEN ts ELSE C27_Fold(C27_Effect(ts, refs[i]), refs, i + 1)

C27_AppliedInOrder ==
    (/\ pc = "execute"
     /\ hist.refine_ran
     /\ hist.refine_refs # <<>>
     /\ \A i \in DOMAIN hist.refine_refs : C27_InScope(hist.refine_refs[i])) =>
        /\ ~hist.crashed
        /\ tasks = C27_Fold(hist.refine_tasks, hist.refine_refs, 1)

C27_Witness ==
    /\ pc = "execute"
    /\ hist.refine_ran
    /\ hist.refine_tasks = <<CalcTask(PyInt(1))>>
    /\ hist.refine_refs =
          <<Add([id |-> PyInt(2), description |-> PyStr("3 * 3"),
                 tool |-> PyStr("calculator")]),
            Remove(PyInt(2))>>
    /\ tasks = <<CalcTask(PyInt(1))>>

(* C28: an instruction with an unrecognized action, a modify or remove     *)
(* without task_id, an add or modify without details, or an add or modify  *)
(* whose details do not decode, is skipped: the round ends as it does      *)
(* without that instruction (same task list, same ids given, no exception  *)
(* of its making), so the instructions after it are applied; a round of    *)
(* such instructions only leaves the task list as it was.                  *)
C28_BadShape(r) ==
    /\ r.isdict
    /\ \/ r.action \notin {"remove", "modify", "add"}
       \/ r.action \in {"remove", "modify"} /\ r.task_id = PyNone
       \/ r.action \in {"add", "modify"} /\ r.details.kind \in {"none", "empty"}
       \/ r.action \in {"add", "modify"} /\ r.details.kind = "text"

C28_Without(refs, i) == SubSeq(refs, 1, i - 1) \o SubSeq(refs, i + 1, Len(refs))

C28_BadShapeSkipped ==
    (pc \in {"execute", "returned"} /\ hist.refine_ran) =>
        LET refs == hist.refine_refs
        IN /\ \A i \in DOMAIN refs :
                 C28_BadShape(refs[i]) =>
                    LET rest == ApplyRefinements(hist.refine_tasks, C28_Without(refs, i))
                    IN /\ hist.crashed = rest.raised
                       /\ ~rest.raised => (tasks = rest.tasks /\ hist.refine_given = rest.given)
           /\ (\A i \in DOMAIN refs : C28_BadShape(refs[i])) =>
                 (~hist.crashed /\ tasks = hist.refine_tasks)

C28_Witness ==
    /\ pc = "execute"
    /\ hist.refine_ran
    /\ Len(hist.refine_refs) = 2
    /\ hist.refine_refs[1] = Instruction("replace", PyInt(1), DText)
    /\ hist.refine_refs[2] = Remove(PyInt(1))
    /\ hist.refine_tasks = <<CalcTask(PyInt(1)), SearchTask(PyInt(2))>>
    /\ tasks = <<SearchTask(PyInt(2))>>

(* C29: an add whose task, once given an id, lacks the description key or  *)
(* the tool key appends nothing: after a round of such adds the task list  *)
(* is the one before it.                                                   *)
C29_IncompleteAdd(r) ==
    /\ r.isdict
    /\ r.action = "add"
    /\ r.details.kind = "object"
    /\ ~({"description", "tool"} \subseteq DOMAIN r.details.d)

C29_IncompleteAddSkipped ==
    (/\ pc = "execute"
     /\ hist.refine_ran
     /\ hist.refine_refs # <<>>
     /\ \A i \in DOMAIN hist.refine_refs : C29_IncompleteAdd(hist.refine_refs[i])) =>
        tasks = hist.refine_tasks

C29_Witness ==
    /\ pc = "execute"
    /\ hist.refine_ran
    /\ hist.refine_refs = <<Add([description |-> PyStr("3 * 3")])>>
    /\ tasks = hist.refine_tasks
    /\ tasks # <<>>

(* C30: reflect_step calls the Reflector only when it finds no fatal error *)
(* and a non-empty result list; when it finds a fatal error (from          *)
(* planning), or neither results nor tasks, it does not call the Reflector *)
(* and stores a verdict with success=false, complete=false and no          *)
(* refinements.                                                            *)
C30_ReflectorOnlyOnResults ==
    pc = "decide" =>
        /\ hist.reflect_called => (hist.reflect_error = "" /\ results # <<>>)
        /\ (hist.reflect_error # "" \/ (results = <<>> /\ tasks = <<>>)) =>
              /\ ~hist.reflect_called
              /\ reflection.present
              /\ ~reflection.success
              /\ ~reflection.complete
              /\ reflection.refinements = <<>>

C30_Witness ==
    /\ pc = "decide"
    /\ hist.reflect_error = NoValidTasksText
    /\ ~hist.reflect_called
    /\ reflection = Verdict(FALSE, FALSE, NoValidTasksText, <<>>)

(* C31: once plan_step has recorded a planning failure, the run goes on    *)
(* through execute, reflect and respond and returns: at every later point  *)
(* the fatal error is still set, the task list and the result list are     *)
(* empty, neither execute_task nor the Reflector has been called, the      *)
(* decision is to respond and no refine step has run.                      *)
C31_PlanningFailureGoesToRespond ==
    error_message \in PlanningFailureTexts =>
        /\ tasks = <<>>
        /\ results = <<>>
        /\ ~hist.adapter_invoked
        /\ ~hist.reflect_called
        /\ hist.refines = 0
        /\ ~hist.crashed
        /\ pc \in {"execute", "reflect", "decide", "generate_response",
                   "invoke_done", "returned"}
        /\ hist.decisions > 0 => hist.route = "end_workflow"
        /\ pc = "returned" => (hist.responded /\ ret.returned /\ ~ret.success)

C31_Witness ==
    /\ error_message = NoValidTasksText
    /\ pc = "returned"
    /\ hist.responded
    /\ steps = 4

(* C32: an item that is not a mapping, lacks id, description or tool, has  *)
(* a wrongly typed field or names a tool outside {search, calculator} is   *)
(* skipped and the items after it are still looked at.  As stated: the     *)
(* plan returned is exactly the valid items in their order.  As the code   *)
(* has it: the plan returned is the valid items in their order, a          *)
(* calculator item carrying its cleaned description and left out when that *)
(* is empty; and a plan is returned unless there are items and none is     *)
(* left.                                                                   *)
C32_Valid(item) ==
    /\ item.isdict
    /\ {"id", "description", "tool"} \subseteq DOMAIN item.d
    /\ item.d["id"].ty \in {"int", "str"}
    /\ item.d["description"].ty = "str"
    /\ item.d["tool"] \in {PyStr("search"), PyStr("calculator")}

C32_Clean(x) ==
    LET f == SelectSeq([i \in 1..Len(x) |-> SubSeq(x, i, i)],
                       LAMBDA c : c \in C23_CharSet)
        nz == {i \in 1..Len(f) : f[i] # " "}
        first == CHOOSE i \in nz : \A k \in nz : i <= k
        last == CHOOSE i \in nz : \A k \in nz : i >= k
        text[i \in 0..Len(f)] ==
            IF i < first THEN "" ELSE text[i - 1] \o f[i]
    IN IF nz = {} THEN "" ELSE text[last]

C32_Kept(item) ==
    /\ C32_Valid(item)
    /\ item.d["tool"] = PyStr("calculator") => C32_Clean(item.d["description"].s) # ""

C32_AsPlanned(item) ==
    IF item.d["tool"] = PyStr("calculator")
    THEN [item.d EXCEPT !["description"] = PyStr(C32_Clean(item.d["description"].s))]
    ELSE item.d

C32_Dicts(items) == [i \in 1..Len(items) |-> items[i].d]

C32_PlanIsValidItems ==
    (pc = "execute" /\ hist.upstream.kind = "list" /\ error_message = "") =>
        tasks = C32_Dicts(SelectSeq(hist.upstream.items, C32_Valid))

C32_PlanIsKeptItemsCleaned ==
    (pc = "execute" /\ hist.upstream.kind = "list") =>
        LET kept == SelectSeq(hist.upstream.items, C32_Kept)
            plan == [i \in 1..Len(kept) |-> C32_AsPlanned(kept[i])]
        IN /\ error_message = "" => tasks = plan
           /\ error_message # "" <=> (hist.upstream.items # <<>> /\ kept = <<>>)

C32_Witness ==
    /\ pc = "execute"
    /\ hist.upstream.kind = "list"
    /\ Len(hist.upstream.items) = 2
    /\ hist.upstream.items[1] = RawItem(Task(PyInt(1), PyStr("2"), PyStr("translate")))
    /\ tasks = <<Task(PyInt(2), PyStr("2"), PyStr("calculator"))>>

(* C33: with no fatal error and results present, the response holds one    *)
(* numbered line per completed result, in result order, each with the      *)
(* whole payload, and after them one line per other result with its task   *)
(* id and its payload; with no results it holds the stored verdict's       *)
(* feedback text and, when there are no tasks either, the sentence "No     *)
(* tasks were planned or executed."                                        *)
C33_OkLines == SelectSeq(final_response, LAMBDA l : l.fmt = "ok")
C33_FailLines == SelectSeq(final_response, LAMBDA l : l.fmt = "fail")

C33_ResponseListsResults ==
    (pc = "invoke_done" /\ hist.responded /\ error_message = "") =>
        LET ok == SelectSeq(results, LAMBDA r : r.status = "completed")
            other == SelectSeq(results, LAMBDA r : r.status # "completed")
        IN /\ Len(C33_OkLines) = Len(ok)
           /\ \A i \in 1..Len(ok) :
                 /\ C33_OkLines[i].id = PyInt(i)
                 /\ C33_OkLines[i].res = ok[i].result
                 /\ "len" \in DOMAIN ok[i] =>
                       /\ C33_OkLines[i].len = ok[i].len
                       /\ C33_OkLines[i].blank = ok[i].blank
           /\ Len(C33_FailLines) = Len(other)
           /\ \A i \in 1..Len(other) :
                 /\ C33_FailLines[i].id = other[i].task_id
                 /\ C33_FailLines[i].res = other[i].result
           /\ \A i, k \in 1..Len(final_response) :
                 (final_response[i].fmt = "ok"
                    /\ final_response[k].fmt = "fail") => i < k
           /\ (results = <<>> /\ reflection.present /\ reflection.feedback # "") =>
                 final_response[1] = Plain(reflection.feedback)
           /\ (results = <<>> /\ tasks = <<>>) =>
                 \E i \in 1..Len(final_response) :
                    final_response[i] = Plain("No tasks were planned or executed.")

(* C34: execute_step on an empty task list with no fatal error leaves the  *)
(* fatal error 'Planning failed to produce any tasks.'; from then on the   *)
(* task and result lists are empty, the reflect step that follows does not *)
(* call the Reflector, the decision that follows routes to the response    *)
(* step, and the run returns success = false with that message as its      *)
(* response.                                                               *)
C34_EmptyTaskListEndsRun ==
    /\ (pc = "reflect" /\ tasks = <<>> /\ error_message \notin PlanningFailureTexts)
           => error_message = NoTasksText
    /\ error_message = NoTasksText =>
        /\ tasks = <<>> /\ results = <<>>
        /\ pc \in {"reflect", "decide", "generate_response", "invoke_done", "returned"}
        /\ pc \in {"decide", "generate_response", "invoke_done"} =>
              (~hist.reflect_called /\ hist.reflect_error = NoTasksText)
        /\ pc \in {"generate_response", "invoke_done"} => hist.route = "end_workflow"
        /\ pc = "invoke_done" => final_response = Text(NoTasksText)
        /\ pc = "returned" =>
              /\ ret.returned /\ ~ret.success
              /\ ret.response = Text(NoTasksText)
              /\ ~hist.reflect_called /\ hist.route = "end_workflow"

(* C35: when the reflect step is due, an empty result list comes with a    *)
(* non-empty fatal error; so reflect_step never takes its branch for no    *)
(* results and no error (no verdict carries that branch's feedback), and   *)
(* no response holds the sentence "No tasks were planned or executed."     *)
C35_NoResultsMeansError ==
    /\ (pc = "reflect" /\ results = <<>>) => error_message # ""
    /\ reflection.present =>
          reflection.feedback \notin {"No tasks were planned.",
                                      "No tasks were executed or no results produced."}
    /\ \A i \in 1..Len(final_response) :
          final_response[i] # Plain("No tasks were planned or executed.")
    /\ \A i \in 1..Len(ret.response) :
          ret.response[i] # Plain("No tasks were planned or executed.")

C35_Witness ==
    /\ pc = "invoke_done" /\ hist.responded /\ hist.refines > 0
    /\ results = <<>> /\ tasks = <<>>
    /\ hist.reflect_error = NoTasksText /\ ~hist.reflect_called

(* C36: at every point of a run every task of the task list has the keys   *)
(* id, description and tool, whether the list came from the planner or     *)
(* from a refinement round that added to it or modified it.                *)
C36_TasksCarryRequiredKeys ==
    \A i \in 1..Len(tasks) : RequiredKeys \subseteq DOMAIN tasks[i]

C36_Witness ==
    /\ pc = "execute" /\ hist.refine_ran /\ tasks # <<>>
    /\ \/ /\ hist.refine_refs[1].action = "add"
          /\ ~(RequiredKeys \subseteq
                 (DOMAIN hist.refine_refs[1].details.d) \cup {"id"})
          /\ tasks = hist.refine_tasks
       \/ /\ hist.refine_refs[1].action = "modify"
          /\ "note" \in DOMAIN tasks[1]

(* C37: when no task is added under an id the queue knows, after every     *)
(* operation each task that was added has its id in exactly one of the     *)
(* pending queue, completed_tasks and failed_tasks, its status field names *)
(* that container, and mark_task_completed or mark_task_failed on an id    *)
(* with no pending task leaves the queue and both dicts as they were.      *)
C37_Pending(id) == {i \in 1..Len(tasks) : hist.objects[tasks[i]]["id"] = id}

C37_InOneContainer ==
    \A o \in QueueObjects :
        Has(hist.objects[o], "status") =>
            LET id == hist.objects[o]["id"]
                p == C37_Pending(id) # {}
                c == DictHas(hist.completed_tasks, id)
                f == DictHas(hist.failed_tasks, id)
                status == hist.objects[o]["status"]
            IN /\ Cardinality(C37_Pending(id)) <= 1
               /\ (p /\ ~c /\ ~f) \/ (~p /\ c /\ ~f) \/ (~p /\ ~c /\ f)
               /\ p => (tasks[CHOOSE i \in C37_Pending(id) : TRUE] = o
                          /\ status = PyStr("pending"))
               /\ c => (DictGet(hist.completed_tasks, id).task = o
                          /\ status = PyStr("completed"))
               /\ f => (DictGet(hist.failed_tasks, id).task = o
                          /\ status = PyStr("failed"))

C37_MarkNotPendingStep ==
    (/\ hist'.op.name \in {"mark_task_completed", "mark_task_failed"}
     /\ C37_Pending(hist'.op.task_id) = {}) =>
        /\ tasks' = tasks
        /\ hist'.objects = hist.objects
        /\ hist'.completed_tasks = hist.completed_tasks
        /\ hist'.failed_tasks = hist.failed_tasks

C37_QueuePartition == [][C37_InOneContainer' /\ C37_MarkNotPendingStep]_vars

C37_Witness ==
    /\ DictHas(hist.completed_tasks, PyInt(1))
    /\ DictHas(hist.failed_tasks, PyInt(2))
    /\ Get(hist.objects[3], "retry_count") = PyInt(1)
    /\ hist.op.name = "mark_task_completed" /\ hist.op.ref = 0
    /\ hist.op.task_id = PyInt(1)

(* C38: retry_task(id) with id in failed_tasks deletes that entry, sets    *)
(* the task's status to pending, stores retry_count one above its former   *)
(* value (0 when the key was absent) and appends the task at the tail of   *)
(* the queue; with id not in failed_tasks it changes nothing.              *)
(* get_next_task returns the head of the queue, the task that has been     *)
(* pending longest since no operation reorders the queue, and None on an   *)
(* empty queue, and changes nothing.                                       *)
C38_DataUnchanged ==
    /\ tasks' = tasks
    /\ hist'.objects = hist.objects
    /\ hist'.completed_tasks = hist.completed_tasks
    /\ hist'.failed_tasks = hist.failed_tasks

C38_OrderKept ==
    \/ tasks' = tasks
    \/ \E o \in QueueObjects : tasks' = Append(tasks, o)
    \/ \E i \in 1..Len(tasks) :
          tasks' = SubSeq(tasks, 1, i - 1) \o SubSeq(tasks, i + 1, Len(tasks))

C38_RetryStep ==
    hist'.op.name = "retry_task" =>
        LET id == hist'.op.task_id
        IN IF DictHas(hist.failed_tasks, id)
           THEN LET task == DictGet(hist.failed_tasks, id).task
                    old == Get(hist.objects[task], "retry_count")
                IN /\ ~DictHas(hist'.failed_tasks, id)
                   /\ \A k \in QueueIds \ {id} :
                         DictHas(hist'.failed_tasks, k) = DictHas(hist.failed_tasks, k)
                   /\ hist'.objects[task]["status"] = PyStr("pending")
                   /\ hist'.objects[task]["retry_count"] =
                         PyInt((IF old = PyNone THEN 0 ELSE old.n) + 1)
                   /\ tasks' = Append(tasks, task)
                   /\ hist'.completed_tasks = hist.completed_tasks
           ELSE C38_DataUnchanged

C38_NextStep ==
    hist'.op.name = "get_next_task" =>
        /\ C38_DataUnchanged
        /\ hist'.op.ref = IF tasks = <<>> THEN 0 ELSE Head(tasks)

C38_RetryAndNext == [][C38_RetryStep /\ C38_NextStep /\ C38_OrderKept]_vars

C38_Witness ==
    /\ hist.op.name = "retry_task" /\ hist.op.ref # 0
    /\ hist.op.before # <<>>
    /\ tasks = Append(hist.op.before, hist.op.ref)
    /\ Get(hist.objects[hist.op.ref], "retry_count") = PyInt(2)
    /\ ~DictHas(hist.failed_tasks, hist.op.task_id)

(* C39: on every step of the registry, an entry that stays in the registry *)
(* keeps its status or moves along pending -> running, running ->          *)
(* completed or running -> failed; a completed or failed entry is left as  *)
(* it is; a new entry is pending; a completed entry has a result and a     *)
(* failed entry an error.                                                  *)
C39_Forward(a, b) ==
    \/ a = b
    \/ a = "pending" /\ b = "running"
    \/ a = "running" /\ b \in {"completed", "failed"}

C39_EntryStep(id) ==
    LET e == hist.active_tasks[id]
        f == hist'.active_tasks[id]
    IN /\ (e.present /\ f.present) =>
             /\ C39_Forward(e.status, f.status)
             /\ e.status \in {"completed", "failed"} => f = e
       /\ (~e.present /\ f.present) => f.status = "pending"
       /\ f.present =>
             /\ f.status \in {"pending", "running", "completed", "failed"}
             /\ f.status = "completed" => f.result
             /\ f.status = "failed" => f.error

C39_StatusMovesForward == [][\A id \in RunIds : C39_EntryStep(id)]_vars

C39_Witness ==
    /\ hist.active_tasks[1].status = "completed" /\ hist.active_tasks[1].result
    /\ hist.active_tasks[2].status = "failed" /\ hist.active_tasks[2].error
    /\ hist.reply = [op |-> "get_task_status", id |-> 2, status |-> "failed"]

(* C40 as stated: after delete_task(id) the id is not in the registry      *)
(* again, and no status write of the id's background run goes through.     *)
C40_DeletedStep(id) ==
    hist.deleted[id] =>
        /\ ~hist'.active_tasks[id].present
        /\ ~(hist.bg[id] \in Holding /\ hist'.bg[id] \notin Holding)

C40_DeletedWritesFail == [][\A id \in RunIds : C40_DeletedStep(id)]_vars

(* C40, amended: after delete_task(id) the id is not in the registry       *)
(* again; a status write of the background run whose lookup comes after    *)
(* the deletion raises KeyError, and one that had looked the record up     *)
(* before the deletion stores into the removed record; in both cases the   *)
(* registry is left as it was.                                             *)
C40_AmendedStep(id) ==
    hist.deleted[id] =>
        /\ ~hist'.active_tasks[id].present
        /\ hist.bg[id] \in {"scheduled", "ok"} => hist'.bg[id] \in {"scheduled", "ok", "err"}
        /\ hist.bg[id] = "err" => hist'.bg[id] \in {"err", "raised_KeyError"}
        /\ hist'.bg[id] # hist.bg[id] => hist'.active_tasks = hist.active_tasks

C40_DeletedNeverReappears == [][\A id \in RunIds : C40_AmendedStep(id)]_vars

C40_Witness ==
    /\ hist.deleted[1] /\ hist.bg[1] = "raised_KeyError"
    /\ hist.deleted[2] /\ hist.bg[2] = "done"
    /\ ~hist.active_tasks[1].present /\ ~hist.active_tasks[2].present
====
